---- MODULE Spec2Model ----
(***************************************************************************)
(* A model of pterminal's terminal core: the SPSC ring buffer              *)
(* (terminal/spsc.rs), the PTY handle with its reader and writer threads   *)
(* (terminal/pty.rs) and the emulator with its parser thread               *)
(* (terminal/emulator.rs).                                                 *)
(***************************************************************************)
EXTENDS Integers, Sequences, FiniteSets, TLC

(***************************************************************************)
(* Bounds of the model.                                                    *)
(***************************************************************************)
\* usize counters are modelled CounterBits wide, so that wrap-around is reachable
CounterBits == 2
\* the capacity requested from spsc::channel in the ring-buffer specification
RingDepth == 2
\* calls of try_push / push_blocking the producer makes
MaxPush == 5
\* the capacity requested for the PTY writer queue (INPUT_QUEUE_DEPTH in the code)
WriteDepth == 1
\* calls of PtyHandle::write
MaxWrites == 3
\* lines of scrollback the terminal keeps
MaxHistory == 1
\* the capacity requested for the parser's input queue (PARSER_INPUT_QUEUE_DEPTH)
InputDepth == 1
\* the capacity requested for the parser's control queue (PARSER_CONTROL_QUEUE_DEPTH)
ControlDepth == 1
\* chunks the PTY reader reads
MaxChunks == 2
\* calls the owner of a TerminalEmulator makes
MaxCalls == 3
\* pane ids a workspace manager hands out after the first pane
MaxPanes == 4
\* panes the application spawns after its first
MaxSpawns == 2
\* f32 is modelled with MantissaBits significant bits (24 in the code), so that
\* rounding is reachable with MaxPanes panes; the exponent is not bounded
MantissaBits == 3
\* saturation of push_blocking's spin counter (only `spins < 64` is observable)
SPIN_LIMIT == 64

VARIABLES
    ch,         \* spsc::Inner: buf, mask, capacity, head, tail, the closed flags
    prod,       \* the producer thread: its position inside try_push / push_blocking
    cons,       \* the consumer thread: its position inside try_pop
    accepted,   \* history: the values whose push returned Ok, in call order
    popped,     \* history: the values try_pop returned, in call order
    write_q,    \* PtyHandle: the writer queue behind input_tx / input_rx
    pty,        \* PtyHandle as its owner sees it: input_tx, the write call in progress
    writer,     \* the pty-writer thread: its position in the loop, did_work, chunk
    master,     \* what the writer thread has written to the PTY master, in order
    write_ok,   \* history: the buffers for which PtyHandle::write returned Ok
    term,       \* TermInner: the terminal the parser thread owns
    render_cache, \* the parser thread's render_cache
    input_q,    \* the emulator's input queue (PTY reader -> parser)
    control_q,  \* the emulator's control queue (owner -> parser)
    parser,     \* the term-parser thread: its position in the loop, did_work
    reader,     \* the pty-reader thread: its position, the chunk it read
    ui,         \* the thread that owns the TerminalEmulator: the call in progress
    render_grid, \* the cache that thread passes to the delta extracts
    reply,      \* the reply channel of the command in progress
    dirty,      \* the pane's dirty flag, set by on_output_ready
    hist,       \* history: chunks applied, what happened since the last extract
    tree,       \* SplitTree: the root node
    app,        \* WorkspaceManager and the pane states of the application
    pb,         \* TextRenderer: the PaneBuffer of one pane
    last_op     \* history: the last call on the split tree, and the tree before it

spscVars == <<ch, prod, cons, accepted, popped>>
ptyVars == <<write_q, pty, writer, master, write_ok>>
emuVars == <<term, render_cache, input_q, control_q, parser, reader, ui, render_grid,
             reply, dirty, hist>>
appVars == <<tree, app, last_op>>
renderVars == <<pb>>
vars == <<spscVars, ptyVars, emuVars, appVars, renderVars>>
\* what the actions of one component leave alone
notSpsc == <<ptyVars, emuVars, appVars, renderVars>>
notPty == <<spscVars, emuVars, appVars, renderVars>>
notEmu == <<spscVars, ptyVars, appVars, renderVars>>
notApp == <<spscVars, ptyVars, emuVars, renderVars>>
notRender == <<spscVars, ptyVars, emuVars, tree, app>>

(***************************************************************************)
(* spsc.rs                                                                 *)
(***************************************************************************)
Pow2(n) == 2 ^ n
Modulus == Pow2(CounterBits)

wrapping_add(x, y) == (x + y) % Modulus
wrapping_sub(x, y) == (x + Modulus - y) % Modulus

RECURSIVE NextPow2From(_, _)
NextPow2From(p, n) == IF p >= n THEN p ELSE NextPow2From(2 * p, n)
next_power_of_two(n) == NextPow2From(1, n)
MaxOf(a, b) == IF a >= b THEN a ELSE b

\* a slot of MaybeUninit<T> that holds no value
Uninit == [uninit |-> TRUE]

Inner_new(capacity) ==
    LET cap == next_power_of_two(MaxOf(capacity, 1)) IN
    [ buf |-> [i \in 0 .. cap - 1 |-> Uninit],
      mask |-> cap - 1,
      capacity |-> cap,
      head |-> 0,
      tail |-> 0,
      producer_closed |-> FALSE,
      consumer_closed |-> FALSE ]

\* idx = counter & mask, for a mask of the form 2^k - 1
SlotOf(q, counter) == counter % (q.mask + 1)

IsFullOffByOne(q, head, tail) == wrapping_sub(head, tail) > q.capacity
IsFull(q, head, tail) == wrapping_sub(head, tail) >= q.capacity

\* (a variant for which the ring always holds something)
IsEmptyNever(head, tail) == FALSE
IsEmpty(head, tail) == tail = head

\* the items published and not yet consumed, oldest first
RECURSIVE ItemsFrom(_, _, _)
ItemsFrom(q, t, n) ==
    IF n = 0 THEN <<>>
    ELSE <<q.buf[SlotOf(q, t)]>> \o ItemsFrom(q, wrapping_add(t, 1), n - 1)
Items(q) == ItemsFrom(q, q.tail, wrapping_sub(q.head, q.tail))

IsPrefix(s, t) == Len(s) <= Len(t) /\ s = SubSeq(t, 1, Len(s))

\* try_push and try_pop as single steps, for the threads that use a channel
try_push(q, value) ==
    IF q.consumer_closed \/ IsFull(q, q.head, q.tail)
    THEN [ok |-> FALSE, q |-> q]
    ELSE [ok |-> TRUE,
          q |-> [q EXCEPT !.buf[SlotOf(q, q.head)] = value,
                          !.head = wrapping_add(q.head, 1)]]

\* a try_pop that hands out the value and leaves the tail where it was
try_pop_keeps_tail(q) ==
    IF IsEmpty(q.head, q.tail)
    THEN [some |-> FALSE, value |-> Uninit, q |-> q]
    ELSE [some |-> TRUE, value |-> q.buf[SlotOf(q, q.tail)], q |-> q]

try_pop(q) ==
    IF IsEmpty(q.head, q.tail)
    THEN [some |-> FALSE, value |-> Uninit, q |-> q]
    ELSE [some |-> TRUE, value |-> q.buf[SlotOf(q, q.tail)],
          q |-> [q EXCEPT !.buf[SlotOf(q, q.tail)] = Uninit,
                          !.tail = wrapping_add(q.tail, 1)]]

\* Drop for Inner: `for idx in tail..head` visits the integers from tail up to
\* head - 1, none when head <= tail; each visited slot is dropped in place
Drop_Inner(q) ==
    LET RECURSIVE Visit(_)
        Visit(idx) == IF idx >= q.head THEN <<>>
                      ELSE <<SlotOf(q, idx)>> \o Visit(idx + 1)
        slots == Visit(q.tail)
    IN [slots |-> slots,
        dropped |-> [k \in 1 .. Len(slots) |-> q.buf[slots[k]]],
        q |-> [q EXCEPT !.buf = [i \in DOMAIN q.buf |->
                                   IF \E k \in 1 .. Len(slots) : slots[k] = i
                                   THEN Uninit ELSE q.buf[i]]]]

\* Drop for Consumer
DropConsumerForgets(q) == q
DropConsumer(q) == [q EXCEPT !.consumer_closed = TRUE]

ProdIdle == [pc |-> "idle", blocking |-> FALSE, value |-> 0, head |-> 0, spins |-> 0]
ConsIdle == [pc |-> "idle", tail |-> 0, value |-> Uninit]

\* a buffer of PtyHandle::write: the call it came from and its length in bytes
BufLens == {0, 1, 2}
Buffer(id, len) == [id |-> id, len |-> len]
NoChunk == Buffer(0, 0)

\* after_error: history, the call began after the writer thread had exited on a
\* write error
PtyUnused == [input_tx |-> FALSE, pc |-> "idle", data |-> NoChunk, calls |-> 0,
              result |-> "none", waited |-> FALSE, after_error |-> FALSE]
WriterUnused == [pc |-> "exited", did_work |-> FALSE, chunk |-> NoChunk, exit |-> "none"]

(***************************************************************************)
(* emulator.rs: the terminal state the parser thread owns.  Term, its grid *)
(* and its damage tracker belong to the alacritty_terminal crate; they are *)
(* modelled by what the calls made in emulator.rs do: Term::new starts     *)
(* fully damaged, printing damages the cursor's line, a scroll of the      *)
(* region and leaving insert mode damage everything, Term::resize damages  *)
(* everything when the size changes, Grid::scroll_display moves the        *)
(* display offset and records no damage, and Term::damage reports Full     *)
(* while insert mode is on and otherwise always adds the line the cursor   *)
(* was on at the last call and the line it is on now.                      *)
(***************************************************************************)
\* the cell contents told apart: a blank cell and a printed one
Blank == " "
Printed == "x"

BlankRow(cols) == [i \in 1 .. cols |-> Blank]
Point(line, col) == [line |-> line, col |-> col]
MinOf(a, b) == IF a <= b THEN a ELSE b

\* what one input chunk does when processor.advance feeds it to the terminal
Ops == {"print", "linefeed", "insert_on", "insert_off"}

\* a row cut or padded to `cols` cells
FitRow(row, cols) == [i \in 1 .. cols |-> IF i <= Len(row) THEN row[i] ELSE Blank]

\* Term::new(config, &size, listener)
Term_new(cols, rows) ==
    [ cols |-> cols,
      rows |-> rows,
      grid |-> [r \in 1 .. rows |-> BlankRow(cols)],
      history |-> <<>>,
      display_offset |-> 0,
      cursor |-> Point(0, 0),
      insert |-> FALSE,
      damage |-> [full |-> TRUE, lines |-> {}, last_cursor |-> Point(0, 0)] ]

mark_fully_damaged(t) == [t EXCEPT !.damage.full = TRUE]

\* the last MaxHistory lines of the scrollback
KeepHistory(h) ==
    IF Len(h) > MaxHistory THEN SubSeq(h, Len(h) - MaxHistory + 1, Len(h)) ELSE h

\* the screen scrolls up by one line: the top line enters the scrollback, a
\* blank line enters at the bottom, a scrolled-back view stays on its lines
scroll_up(t) ==
    LET h == KeepHistory(Append(t.history, t.grid[1])) IN
    mark_fully_damaged(
        [t EXCEPT !.history = h,
                  !.grid = Append(Tail(t.grid), BlankRow(t.cols)),
                  !.display_offset = IF t.display_offset = 0 THEN 0
                                     ELSE MinOf(t.display_offset + 1, Len(h))])

\* processor.advance(term, &data) for a chunk that holds one operation
processor_advance(t, op) ==
    CASE op = "print" ->
           [t EXCEPT !.grid[t.cursor.line + 1][t.cursor.col + 1] = Printed,
                     !.cursor.col = MinOf(t.cursor.col + 1, t.cols - 1),
                     !.damage.lines = @ \cup {t.cursor.line}]
      [] op = "linefeed" ->
           IF t.cursor.line + 1 < t.rows
           THEN [t EXCEPT !.cursor.line = t.cursor.line + 1]
           ELSE scroll_up(t)
      [] op = "insert_on" -> [t EXCEPT !.insert = TRUE]
      [] op = "insert_off" -> mark_fully_damaged([t EXCEPT !.insert = FALSE])

\* Term::resize(size): nothing when the size is the same
Term_resize(t, cols, rows) ==
    IF cols = t.cols /\ rows = t.rows THEN t
    ELSE [t EXCEPT !.cols = cols,
                   !.rows = rows,
                   !.grid = [r \in 1 .. rows |->
                               IF r <= t.rows THEN FitRow(t.grid[r], cols)
                               ELSE BlankRow(cols)],
                   !.history = [i \in 1 .. Len(t.history) |-> FitRow(t.history[i], cols)],
                   !.cursor = Point(MinOf(t.cursor.line, rows - 1),
                                    MinOf(t.cursor.col, cols - 1)),
                   !.damage = [full |-> TRUE, lines |-> {}, last_cursor |-> @.last_cursor]]

\* grid_mut().scroll_display(Scroll::Delta(delta)): clamped to the scrollback
scroll_display(t, delta) ==
    [t EXCEPT !.display_offset = MaxOf(0, MinOf(t.display_offset + delta, Len(t.history)))]

\* Term::damage(): the damage reported, and the terminal after the call
Term_damage(t) ==
    LET t1 == IF t.insert THEN mark_fully_damaged(t) ELSE t
        previous_cursor == t1.damage.last_cursor
        t2 == [t1 EXCEPT !.damage.last_cursor = t.cursor]
        moved == IF t.cursor # previous_cursor THEN {previous_cursor.line} ELSE {}
        t3 == [t2 EXCEPT !.damage.lines = @ \cup moved \cup {t.cursor.line}]
    IN  IF t2.damage.full
        THEN [full |-> TRUE, lines |-> {}, term |-> t2]
        ELSE [full |-> FALSE,
              lines |-> {l + t3.display_offset :
                           l \in {d \in t3.damage.lines : d < t3.rows - t3.display_offset}},
              term |-> t3]

\* Term::reset_damage()
Term_reset_damage(t) == [t EXCEPT !.damage.full = FALSE, !.damage.lines = {}]

\* &grid[Point::new(Line(line_idx - display_offset), Column(..))] over a row
ViewRow(t, line_idx) ==
    LET actual_line == line_idx - t.display_offset IN
    IF actual_line >= 0 THEN t.grid[actual_line + 1]
    ELSE t.history[Len(t.history) + actual_line + 1]

\* GridCell and GridLine as extracted for rendering
GridCell(cell) == [c |-> cell]
GridLine(cells) == [cells |-> cells]
ExtractLine(t, line_idx) ==
    GridLine([col \in 1 .. t.cols |-> GridCell(ViewRow(t, line_idx)[col])])

\* the elements of a set of numbers in ascending order
RECURSIVE Ascending(_)
Ascending(S) ==
    IF S = {} THEN <<>>
    ELSE LET m == CHOOSE x \in S : \A y \in S : x <= y
         IN  <<m>> \o Ascending(S \ {m})

\* 0..n as a sequence
UpTo(n) == [i \in 1 .. n |-> i - 1]

extract_grid_full_from_term(t) == [line \in 1 .. t.rows |-> ExtractLine(t, line - 1)]

shape_changed(t, out) ==
    \/ Len(out) # t.rows
    \/ (Len(out) >= 1 /\ Len(out[1].cells) # t.cols)
    \/ (Len(out) > 1 /\ \E i \in 1 .. Len(out) : Len(out[i].cells) # t.cols)

\* (a variant whose full extract does not list the rows it rewrote)
extract_grid_delta_from_term_unlisted(t, out) ==
    LET shape == shape_changed(t, out)
        dmg == Term_damage(t)
        partial == Ascending({l \in dmg.lines : l < t.rows})
        full == dmg.full \/ shape
        new_out ==
            IF full THEN extract_grid_full_from_term(t)
            ELSE [i \in 1 .. Len(out) |->
                    IF \E k \in 1 .. Len(partial) : partial[k] = i - 1
                    THEN ExtractLine(t, i - 1) ELSE out[i]]
    IN  [ delta |-> [full |-> full, dirty_rows |-> IF shape THEN <<>> ELSE partial],
          out |-> new_out,
          term |-> Term_reset_damage(dmg.term) ]

\* extract_grid_delta_from_term(term, theme, out): the delta, the cache and the
\* terminal after the call
extract_grid_delta_from_term(t, out) ==
    LET shape == shape_changed(t, out)
        dmg == Term_damage(t)
        partial == Ascending({l \in dmg.lines : l < t.rows})
        full == dmg.full \/ shape
        dirty_rows == IF full THEN UpTo(t.rows) ELSE partial
        new_out ==
            IF full THEN extract_grid_full_from_term(t)
            ELSE [i \in 1 .. Len(out) |->
                    IF \E k \in 1 .. Len(dirty_rows) : dirty_rows[k] = i - 1
                    THEN ExtractLine(t, i - 1) ELSE out[i]]
    IN  [ delta |-> [full |-> full, dirty_rows |-> dirty_rows],
          out |-> new_out,
          term |-> Term_reset_damage(dmg.term) ]

(***************************************************************************)
(* emulator.rs: TerminalEmulator, its parser thread, and the PTY reader    *)
(* thread of pty.rs that feeds it through a TerminalEmulatorHandle         *)
(***************************************************************************)
\* the sizes an emulator is created with, and the sizes it is resized to
StartSizes == {<<1, 2>>, <<2, 2>>}
ResizeTo == {<<2, 1>>, <<1, 2>>}
ScrollDeltas == {-1, 1}

NoReply == [kind |-> "none"]
NoCmd == [kind |-> "none"]
NoSnap == [cursor |-> Point(0, 0), view |-> <<>>, applied |-> 0]

\* the commands that carry a reply channel
Queries == {"QuerySize", "QueryCursor", "QueryDisplayOffset"}
Replying == Queries \cup {"ExtractFull", "ExtractDelta"}

\* handled: history, the control commands popped so far
ParserStart == [pc |-> "input", did_work |-> FALSE, delta |-> NoReply, snap |-> NoSnap,
                handled |-> 0]
ReaderStart == [pc |-> "read", chunk |-> NoCmd, waited |-> FALSE]
\* input_tx: the owner still holds the input producer (take_parser_handle not called)
\* issued: history, the control commands pushed so far
\* frame: render_frame's locals for the pane, and the content latched by
\* set_pane_content
NoFrame == [stage |-> "none", content_dirty |-> FALSE, extracted |-> FALSE, latched |-> <<>>]
UiStart == [pc |-> "idle", cmd |-> NoCmd, calls |-> 0, input_tx |-> TRUE, last |-> NoReply,
            issued |-> 0, frame |-> NoFrame]
\* history of a run; `on`: the chunks are counted and logged, which bounds the run
HistStart == [on |-> TRUE, read |-> 0, pushed |-> 0, applied |-> <<>>, quiet |-> FALSE,
              resized |-> FALSE, after_full |-> FALSE]
Read(h) == IF h.on THEN [h EXCEPT !.read = @ + 1] ELSE h
Pushed(h) == IF h.on THEN [h EXCEPT !.pushed = @ + 1] ELSE h
Applied(h, id) == IF h.on THEN [h EXCEPT !.applied = Append(@, id)] ELSE h

(***************************************************************************)
(* split/mod.rs: the split tree of one workspace                           *)
(***************************************************************************)
\* f32 values of the layout are counted in units of 2^-MaxPanes, so that One
\* is 1.0 and every width the model reaches is a whole number of units; a
\* ratio is a number of tenths, or NaN
One == Pow2(MaxPanes)
Ratio(t) == [nan |-> FALSE, tenths |-> t]
NaN == [nan |-> TRUE, tenths |-> 0]

RECURSIVE BitLen(_)
BitLen(n) == IF n = 0 THEN 0 ELSE 1 + BitLen(n \div 2)

\* the f32 nearest to n: MantissaBits significant bits, ties to even
f32_round(n) ==
    LET drop == BitLen(n) - MantissaBits IN
    IF drop <= 0 THEN n
    ELSE LET ulp == Pow2(drop)
             q == n \div ulp
             r == n % ulp
             up == 2 * r > ulp \/ (2 * r = ulp /\ q % 2 = 1)
         IN (IF up THEN q + 1 ELSE q) * ulp

\* f32::clamp of a ratio: NaN when self is NaN
clamp(r, min, max) ==
    IF r.nan THEN NaN
    ELSE IF r.tenths < min.tenths THEN min
    ELSE IF r.tenths > max.tenths THEN max
    ELSE r

Leaf(id) == [leaf |-> TRUE, id |-> id]
Split(direction, ratio, first, second) ==
    [leaf |-> FALSE, direction |-> direction, ratio |-> ratio,
     first |-> first, second |-> second]
PaneRect(x, y, width, height) == [x |-> x, y |-> y, width |-> width, height |-> height]

SplitTree_new(pane_id) == [root |-> Leaf(pane_id)]

RECURSIVE split_node(_, _, _, _)
\* (a variant that puts the new pane first)
split_node_new_first(node, target, direction, new_pane) ==
    IF node.leaf
    THEN IF node.id = target
         THEN [found |-> TRUE, node |-> Split(direction, Ratio(5), Leaf(new_pane), node)]
         ELSE [found |-> FALSE, node |-> node]
    ELSE LET a == split_node(node.first, target, direction, new_pane) IN
         IF a.found
         THEN [found |-> TRUE, node |-> [node EXCEPT !.first = a.node]]
         ELSE LET b == split_node(node.second, target, direction, new_pane) IN
              [found |-> b.found, node |-> [node EXCEPT !.second = b.node]]

split_node(node, target, direction, new_pane) ==
    IF node.leaf
    THEN IF node.id = target
         THEN [found |-> TRUE, node |-> Split(direction, Ratio(5), node, Leaf(new_pane))]
         ELSE [found |-> FALSE, node |-> node]
    ELSE LET a == split_node(node.first, target, direction, new_pane) IN
         IF a.found
         THEN [found |-> TRUE, node |-> [node EXCEPT !.first = a.node]]
         ELSE LET b == split_node(node.second, target, direction, new_pane) IN
              [found |-> b.found, node |-> [node EXCEPT !.second = b.node]]

split(t, target, direction, new_pane) ==
    [t EXCEPT !.root = split_node(t.root, target, direction, new_pane).node]

RECURSIVE remove_node(_, _)
\* (a variant that finds the pane as second child and leaves the Split as it is)
remove_node_keeps_second(node, pane_id) ==
    IF node.leaf THEN [found |-> FALSE, node |-> node]
    ELSE IF node.first.leaf /\ node.first.id = pane_id
    THEN [found |-> TRUE, node |-> node.second]
    ELSE LET a == remove_node(node.first, pane_id) IN
         IF a.found
         THEN [found |-> TRUE, node |-> [node EXCEPT !.first = a.node]]
         ELSE IF node.second.leaf
         THEN [found |-> node.second.id = pane_id, node |-> node]
         ELSE LET b == remove_node(node.second, pane_id) IN
              [found |-> b.found, node |-> [node EXCEPT !.second = b.node]]

remove_node(node, pane_id) ==
    IF node.leaf THEN [found |-> FALSE, node |-> node]
    ELSE IF node.first.leaf /\ node.first.id = pane_id
    THEN [found |-> TRUE, node |-> node.second]
    ELSE IF node.second.leaf /\ node.second.id = pane_id
    THEN [found |-> TRUE, node |-> node.first]
    ELSE LET a == remove_node(node.first, pane_id) IN
         IF a.found
         THEN [found |-> TRUE, node |-> [node EXCEPT !.first = a.node]]
         ELSE LET b == remove_node(node.second, pane_id) IN
              [found |-> b.found, node |-> [node EXCEPT !.second = b.node]]

RECURSIVE node_contains(_, _)
node_contains(node, pane_id) ==
    IF node.leaf THEN node.id = pane_id
    ELSE node_contains(node.first, pane_id) \/ node_contains(node.second, pane_id)

\* (a variant that reports whether the pane was found, removed or not)
remove_returns_found(t, pane_id) ==
    [ok |-> node_contains(t.root, pane_id),
     tree |-> [t EXCEPT !.root = remove_node(t.root, pane_id).node]]

\* the tree after the call, and the value the call returns
remove(t, pane_id) ==
    IF t.root.leaf /\ t.root.id = pane_id
    THEN [ok |-> FALSE, tree |-> t]
    ELSE LET r == remove_node(t.root, pane_id) IN
         [ok |-> r.found, tree |-> [t EXCEPT !.root = r.node]]

RECURSIVE layout_node(_, _)
layout_node(node, rect) ==
    IF node.leaf THEN << <<node.id, rect>> >>
    ELSE IF node.direction = "Horizontal"
    THEN LET first_w == f32_round((rect.width * node.ratio.tenths) \div 10)
             first_rect == PaneRect(rect.x, rect.y, first_w, rect.height)
             second_rect == PaneRect(f32_round(rect.x + first_w), rect.y,
                                     f32_round(rect.width - first_w), rect.height)
         IN layout_node(node.first, first_rect) \o layout_node(node.second, second_rect)
    ELSE LET first_h == f32_round((rect.height * node.ratio.tenths) \div 10)
             first_rect == PaneRect(rect.x, rect.y, rect.width, first_h)
             second_rect == PaneRect(rect.x, f32_round(rect.y + first_h),
                                     rect.width, f32_round(rect.height - first_h))
         IN layout_node(node.first, first_rect) \o layout_node(node.second, second_rect)

layout(t) == layout_node(t.root, PaneRect(0, 0, One, One))

RECURSIVE collect_ids(_)
collect_ids(node) ==
    IF node.leaf THEN <<node.id>>
    ELSE collect_ids(node.first) \o collect_ids(node.second)

pane_ids(t) == collect_ids(t.root)

\* Option<PaneId>
None == [some |-> FALSE, id |-> 0]
Some(id) == [some |-> TRUE, id |-> id]

\* (a variant that stops at the last leaf)
next_pane_no_wrap(t, current) ==
    LET ids == pane_ids(t) IN
    IF \A i \in 1 .. Len(ids) : ids[i] # current THEN None
    ELSE LET pos == (CHOOSE i \in 1 .. Len(ids) :
                        ids[i] = current /\ \A j \in 1 .. i - 1 : ids[j] # current) - 1
         IN Some(ids[(IF pos + 1 < Len(ids) THEN pos + 1 ELSE pos) + 1])

\* pos: the 0-based index ids.iter().position returns
next_pane(t, current) ==
    LET ids == pane_ids(t) IN
    IF \A i \in 1 .. Len(ids) : ids[i] # current THEN None
    ELSE LET pos == (CHOOSE i \in 1 .. Len(ids) :
                        ids[i] = current /\ \A j \in 1 .. i - 1 : ids[j] # current) - 1
         IN Some(ids[((pos + 1) % Len(ids)) + 1])

prev_pane(t, current) ==
    LET ids == pane_ids(t) IN
    IF \A i \in 1 .. Len(ids) : ids[i] # current THEN None
    ELSE LET pos == (CHOOSE i \in 1 .. Len(ids) :
                        ids[i] = current /\ \A j \in 1 .. i - 1 : ids[j] # current) - 1
         IN Some(ids[((pos + Len(ids) - 1) % Len(ids)) + 1])

\* a SplitNode as the set of its nodes: the path from the root (1 = first,
\* 2 = second) with the leaf's id or the split's direction and ratio
RECURSIVE Labels(_, _)
Labels(node, path) ==
    IF node.leaf THEN {<<path, node>>}
    ELSE {<<path, [leaf |-> FALSE, direction |-> node.direction, ratio |-> node.ratio]>>}
         \cup Labels(node.first, path \o <<1>>) \cup Labels(node.second, path \o <<2>>)

RECURSIVE adjust_ratio_node(_, _, _)
adjust_ratio_node(node, pane_id, delta) ==
    IF node.leaf THEN [found |-> FALSE, node |-> node]
    ELSE LET first_match == node_contains(node.first, pane_id)
             second_match == node_contains(node.second, pane_id)
         IN IF first_match \/ second_match
            THEN LET r == IF first_match
                          THEN adjust_ratio_node(node.first, pane_id, delta)
                          ELSE adjust_ratio_node(node.second, pane_id, delta)
                 IN IF ~r.found
                    THEN LET sum == IF node.ratio.nan \/ delta.nan THEN NaN
                                    ELSE Ratio(node.ratio.tenths + delta.tenths)
                         IN [found |-> TRUE,
                             node |-> [node EXCEPT
                                          !.ratio = clamp(sum, Ratio(1), Ratio(9))]]
                    ELSE [found |-> TRUE,
                          node |-> IF first_match THEN [node EXCEPT !.first = r.node]
                                   ELSE [node EXCEPT !.second = r.node]]
            ELSE [found |-> FALSE, node |-> node]

adjust_ratio(t, pane_id, delta) ==
    [t EXCEPT !.root = adjust_ratio_node(t.root, pane_id, delta).node]

\* the pane ids a caller passes: those handed out so far and one never handed out
PaneIds == 0 .. MaxPanes

NoOp == [kind |-> "none"]
\* workspace/mod.rs
Workspace_new(id, pane_id) ==
    [id |-> id, split_tree |-> SplitTree_new(pane_id), active_pane |-> pane_id]

\* (a variant that takes any id)
set_active_pane_unchecked(ws, id) == [ws EXCEPT !.active_pane = id]

set_active_pane(ws, id) ==
    IF node_contains(ws.split_tree.root, id) THEN [ws EXCEPT !.active_pane = id] ELSE ws

\* (a variant that leaves active_index where it was)
close_workspace_keeps_index(m, id) ==
    IF Len(m.workspaces) <= 1 THEN m
    ELSE [m EXCEPT !.workspaces = SelectSeq(@, LAMBDA ws : ws.id # id)]

\* (a variant that closes nothing)
close_workspace_refuses(m, id) == m

\* active_index counts from 0, as in the code
close_workspace(m, id) ==
    IF Len(m.workspaces) <= 1 THEN m
    ELSE IF \E pos \in 1 .. Len(m.workspaces) : m.workspaces[pos].id = id
    THEN LET pos == CHOOSE i \in 1 .. Len(m.workspaces) :
                      /\ m.workspaces[i].id = id
                      /\ \A j \in 1 .. i - 1 : m.workspaces[j].id # id
             rest == SubSeq(m.workspaces, 1, pos - 1)
                         \o SubSeq(m.workspaces, pos + 1, Len(m.workspaces))
         IN [m EXCEPT !.workspaces = rest,
                      !.active_index = IF @ >= Len(rest) THEN Len(rest) - 1 ELSE @]
    ELSE m

select_workspace(m, idx) ==
    IF idx < Len(m.workspaces) THEN [m EXCEPT !.active_index = idx] ELSE m

\* the manager after the call; the ids it returns are the manager's
\* next_workspace_id and next_pane_id before the call
add_workspace(m) ==
    [m EXCEPT !.workspaces = Append(@, Workspace_new(m.next_workspace_id, m.next_pane_id)),
              !.active_index = Len(m.workspaces),
              !.next_workspace_id = @ + 1,
              !.next_pane_id = @ + 1]

\* (a variant that hands out the same id again)
next_pane_id_repeats(m) == m

\* the manager after the call; the id it returns is next_pane_id before the call
next_pane_id(m) == [m EXCEPT !.next_pane_id = @ + 1]

\* WorkspaceManager::new and the pane state of its first pane; exited: the
\* panes whose PTY reader has stored exited = true
AppStart ==
    [workspaces |-> <<Workspace_new(0, 0)>>, active_index |-> 0,
     next_workspace_id |-> 1, next_pane_id |-> 1,
     pane_states |-> {0}, exited |-> {}, quit |-> FALSE]

(***************************************************************************)
(* emulator.rs: indexed colours                                            *)
(***************************************************************************)
\* u8 arithmetic: rgb holds the wrapped values, overflow tells whether any
\* intermediate result left 0 .. 255 (a panic in a debug build)

\* (a variant whose cube starts one step higher)
index_256_to_rgb_high(idx) ==
    LET i == idx - 16
        to_val(v) == IF v = 0 THEN 0 ELSE 56 + 40 * v
        all == {i, 40 * 5, to_val((i \div 36) % 6), to_val((i \div 6) % 6), to_val(i % 6)}
    IN [rgb |-> <<to_val((i \div 36) % 6) % 256, to_val((i \div 6) % 6) % 256,
                  to_val(i % 6) % 256>>,
        overflow |-> \E x \in all : x \notin 0 .. 255]

index_256_to_rgb(idx) ==
    IF idx < 16 THEN [rgb |-> <<0, 0, 0>>, overflow |-> FALSE]
    ELSE IF idx < 232
    THEN LET i == idx - 16
             r == (i \div 36) % 6
             g == (i \div 6) % 6
             b == i % 6
             to_val(v) == IF v = 0 THEN 0 ELSE 55 + 40 * v
             all == {i, to_val(r), to_val(g), to_val(b)}
                       \cup {40 * v : v \in {r, g, b} \ {0}}
         IN [rgb |-> <<to_val(r) % 256, to_val(g) % 256, to_val(b) % 256>>,
             overflow |-> \E x \in all : x \notin 0 .. 255]
    ELSE LET v == 8 + 10 * (idx - 232)
         IN [rgb |-> <<v % 256, v % 256, v % 256>>,
             overflow |-> \E x \in {idx - 232, 10 * (idx - 232), v} : x \notin 0 .. 255]

\* the arm for ansi::Color::Indexed(idx)
alacritty_color_to_rgb(idx, theme) ==
    IF idx < 16 THEN [rgb |-> theme.ansi[idx], overflow |-> FALSE]
    ELSE index_256_to_rgb(idx)

(***************************************************************************)
(* pterminal-render/src/text.rs: the background spans of one pane          *)
(***************************************************************************)
\* a line of the grid is [cells |-> <<[bg |-> colour], ..>>]; rows and columns
\* count from 0 as in the code

\* the PaneBuffer or_insert_with creates; a LineBuffer is its bg_hash, where
\* max stands for u64::MAX and bgs for the hash of the cells' backgrounds
PaneBuffer_new ==
    [lines |-> <<>>, content_bg_spans |-> <<>>, selection_bg_spans |-> <<>>,
     last_selection |-> [some |-> FALSE], last_selection_bg |-> 0, last_default_bg |-> 0]

RECURSIVE emit_bg_spans_for_row(_, _, _, _)
\* the spans the loop pushes from column col on
emit_bg_spans_for_row(line, row_idx, default_bg, col) ==
    IF col >= Len(line.cells) THEN <<>>
    ELSE LET cell_bg == line.cells[col + 1].bg IN
         IF cell_bg = default_bg
         THEN emit_bg_spans_for_row(line, row_idx, default_bg, col + 1)
         ELSE LET end == CHOOSE e \in col + 1 .. Len(line.cells) :
                            /\ \A k \in col + 1 .. e - 1 : line.cells[k + 1].bg = cell_bg
                            /\ e = Len(line.cells) \/ line.cells[e + 1].bg # cell_bg
              IN <<[col |-> col, row |-> row_idx, width |-> end - col, color |-> cell_bg]>>
                    \o emit_bg_spans_for_row(line, row_idx, default_bg, end)

\* (a variant that keeps the old spans of the rows it rewrites)
incremental_update_bg_spans_keeps(out, grid, default_bg, dirty_rows) ==
    LET RECURSIVE Emit(_)
        Emit(k) ==
            IF k > Len(dirty_rows) THEN <<>>
            ELSE (IF dirty_rows[k] < Len(grid)
                  THEN emit_bg_spans_for_row(grid[dirty_rows[k] + 1], dirty_rows[k],
                                             default_bg, 0)
                  ELSE <<>>) \o Emit(k + 1)
    IN out \o Emit(1)

\* (a variant that retains no span of the rows it does not rewrite)
incremental_update_bg_spans_clears(out, grid, default_bg, dirty_rows) ==
    LET RECURSIVE Emit(_)
        Emit(k) ==
            IF k > Len(dirty_rows) THEN <<>>
            ELSE (IF dirty_rows[k] < Len(grid)
                  THEN emit_bg_spans_for_row(grid[dirty_rows[k] + 1], dirty_rows[k],
                                             default_bg, 0)
                  ELSE <<>>) \o Emit(k + 1)
    IN Emit(1)

incremental_update_bg_spans(out, grid, default_bg, dirty_rows) ==
    LET RECURSIVE Emit(_)
        Emit(k) ==
            IF k > Len(dirty_rows) THEN <<>>
            ELSE (IF dirty_rows[k] < Len(grid)
                  THEN emit_bg_spans_for_row(grid[dirty_rows[k] + 1], dirty_rows[k],
                                             default_bg, 0)
                  ELSE <<>>) \o Emit(k + 1)
    IN SelectSeq(out, LAMBDA span : \A k \in 1 .. Len(dirty_rows) : dirty_rows[k] # span.row)
          \o Emit(1)

rebuild_content_bg_spans(grid, default_bg) ==
    incremental_update_bg_spans(<<>>, grid, default_bg, [k \in 1 .. Len(grid) |-> k - 1])

\* selection: [some |-> FALSE] or [some |-> TRUE, start |-> <<col, row>>, end |-> <<col, row>>]
rebuild_selection_bg_spans(grid, selection, selection_bg) ==
    IF ~selection.some THEN <<>>
    ELSE LET start == selection.start
             end == selection.end
             RECURSIVE Rows(_)
             Rows(row) ==
                 IF row > end[2] \/ row >= Len(grid) THEN <<>>
                 ELSE LET len == Len(grid[row + 1].cells)
                          col_start == IF row = start[2] THEN start[1] ELSE 0
                          col_end == IF row = end[2] THEN end[1] + 1 ELSE len
                          clamped_end == IF col_end < len THEN col_end ELSE len
                      IN (IF col_end <= col_start \/ clamped_end <= col_start THEN <<>>
                          ELSE <<[col |-> col_start, row |-> row,
                                  width |-> clamped_end - col_start, color |-> selection_bg]>>)
                            \o Rows(row + 1)
         IN Rows(start[2])

\* (a variant that rebuilds the selection spans in every call)
selection_dirty_always(p, selection, selection_bg) == TRUE

selection_dirty(p, selection, selection_bg) ==
    p.last_selection # selection \/ p.last_selection_bg # selection_bg

\* the PaneBuffer after the call; dirty_rows: [some |-> FALSE] or
\* [some |-> TRUE, rows |-> <<row, ..>>]. sel_rebuilt tells whether
\* rebuild_selection_bg_spans ran.
set_pane_content(p, grid, dirty_rows, default_bg, selection, selection_bg) ==
    LET line_count_changed == Len(p.lines) # Len(grid)
        lines0 == [k \in 1 .. Len(grid) |->
                      IF k <= Len(p.lines) THEN p.lines[k]
                      ELSE [bg_hash |-> [max |-> TRUE, bgs |-> <<>>]]]
        bg_full_rebuild == line_count_changed \/ p.last_default_bg # default_bg
        all_rows == [k \in 1 .. Len(grid) |-> k - 1]
        update_rows == IF line_count_changed THEN all_rows
                       ELSE IF dirty_rows.some
                       THEN SelectSeq(dirty_rows.rows, LAMBDA r : r < Len(grid))
                       ELSE all_rows
        \* hash_line_combined: the length and the background of every cell
        Hash(line) == [max |-> FALSE,
                       bgs |-> [k \in 1 .. Len(line.cells) |-> line.cells[k].bg]]
        Updated(k) == \E u \in 1 .. Len(update_rows) : update_rows[u] = k - 1
        bg_dirty_rows == SelectSeq(update_rows,
                                   LAMBDA r : Hash(grid[r + 1]) # lines0[r + 1].bg_hash)
        lines1 == [k \in 1 .. Len(grid) |->
                      IF Updated(k) THEN [bg_hash |-> Hash(grid[k])] ELSE lines0[k]]
        any_bg_dirty == bg_full_rebuild \/ bg_dirty_rows # <<>>
        spans == IF ~any_bg_dirty THEN p.content_bg_spans
                 ELSE IF bg_full_rebuild \/ Len(bg_dirty_rows) > Len(grid) \div 2
                 THEN rebuild_content_bg_spans(grid, default_bg)
                 ELSE incremental_update_bg_spans(p.content_bg_spans, grid, default_bg,
                                                  bg_dirty_rows)
        sel == selection_dirty(p, selection, selection_bg)
    IN [pb |-> [lines |-> lines1,
                content_bg_spans |-> spans,
                last_default_bg |-> IF any_bg_dirty THEN default_bg ELSE p.last_default_bg,
                selection_bg_spans |->
                    IF sel THEN rebuild_selection_bg_spans(grid, selection, selection_bg)
                    ELSE p.selection_bg_spans,
                last_selection |-> IF sel THEN selection ELSE p.last_selection,
                last_selection_bg |-> IF sel THEN selection_bg ELSE p.last_selection_bg],
        sel_rebuilt |-> sel]

(***************************************************************************)
(* spsc.rs: one producer and one consumer, one atomic access per step      *)
(***************************************************************************)
SpscInit ==
    /\ ch = Inner_new(RingDepth)
    /\ prod = ProdIdle
    /\ cons = ConsIdle
    /\ accepted = <<>>
    /\ popped = <<>>
    /\ write_q = Inner_new(0)
    /\ pty = PtyUnused
    /\ writer = WriterUnused
    /\ master = <<>>
    /\ write_ok = <<>>
    /\ term = Term_new(1, 1)
    /\ render_cache = <<>>
    /\ input_q = Inner_new(0)
    /\ control_q = Inner_new(0)
    /\ parser = [ParserStart EXCEPT !.pc = "exited"]
    /\ reader = [ReaderStart EXCEPT !.pc = "exited"]
    /\ ui = [UiStart EXCEPT !.pc = "dropped", !.input_tx = FALSE]
    /\ render_grid = <<>>
    /\ reply = NoReply
    /\ dirty = FALSE
    /\ hist = HistStart
    /\ tree = SplitTree_new(0)
    /\ app = AppStart
    /\ last_op = NoOp
    /\ pb = PaneBuffer_new

\* the producer calls try_push(value) or push_blocking(value) with a fresh value
ProducerCall ==
    /\ prod.pc = "idle"
    /\ prod.value < MaxPush
    /\ \E blocking \in BOOLEAN :
         prod' = [pc |-> "closed", blocking |-> blocking,
                  value |-> prod.value + 1, head |-> 0, spins |-> 0]
    /\ UNCHANGED <<notSpsc, ch, cons, accepted, popped>>

\* (a variant whose Err carries another value)
TryPushErrOther(p) ==
    IF p.blocking THEN [p EXCEPT !.pc = "recheck"]
    ELSE [p EXCEPT !.pc = "idle", !.value = 0]

\* try_push returned Err(value): return it, or go round push_blocking's loop
TryPushErr(p) ==
    IF p.blocking THEN [p EXCEPT !.pc = "recheck"] ELSE [p EXCEPT !.pc = "idle"]

\* try_push: consumer_closed.load(Acquire), then head.load(Relaxed)
ProducerLoadClosed ==
    /\ prod.pc = "closed"
    /\ prod' = IF ch.consumer_closed THEN TryPushErr(prod)
               ELSE [prod EXCEPT !.pc = "tail", !.head = ch.head]
    /\ UNCHANGED <<notSpsc, ch, cons, accepted, popped>>

\* try_push: tail.load(Acquire) and the test for a full ring
ProducerLoadTail ==
    /\ prod.pc = "tail"
    /\ prod' = IF IsFull(ch, prod.head, ch.tail) THEN TryPushErr(prod)
               ELSE [prod EXCEPT !.pc = "write"]
    /\ UNCHANGED <<notSpsc, ch, cons, accepted, popped>>

\* try_push: buf[head & mask].write(value)
ProducerWriteSlot ==
    /\ prod.pc = "write"
    /\ ch' = [ch EXCEPT !.buf[SlotOf(ch, prod.head)] = prod.value]
    /\ prod' = [prod EXCEPT !.pc = "store"]
    /\ UNCHANGED <<notSpsc, cons, accepted, popped>>

\* try_push: head.store(head + 1, Release), return Ok(())
ProducerStoreHead ==
    /\ prod.pc = "store"
    /\ ch' = [ch EXCEPT !.head = wrapping_add(prod.head, 1)]
    /\ prod' = [prod EXCEPT !.pc = "idle"]
    /\ accepted' = Append(accepted, prod.value)
    /\ UNCHANGED <<notSpsc, cons, popped>>

\* push_blocking after Err(v): give up when the consumer is closed, else spin or
\* yield and call try_push again
ProducerRecheck ==
    /\ prod.pc = "recheck"
    /\ prod' = IF ch.consumer_closed THEN [prod EXCEPT !.pc = "idle"]
               ELSE [prod EXCEPT !.pc = "closed",
                                 !.spins = IF prod.spins < SPIN_LIMIT
                                           THEN prod.spins + 1 ELSE prod.spins]
    /\ UNCHANGED <<notSpsc, ch, cons, accepted, popped>>

\* Drop for Producer
ProducerDrop ==
    /\ prod.pc = "idle"
    /\ ch' = [ch EXCEPT !.producer_closed = TRUE]
    /\ prod' = [prod EXCEPT !.pc = "dropped"]
    /\ UNCHANGED <<notSpsc, cons, accepted, popped>>

\* try_pop: tail.load(Relaxed), head.load(Acquire), None when they are equal
ConsumerLoad ==
    /\ cons.pc = "idle"
    /\ cons' = IF IsEmpty(ch.head, ch.tail) THEN cons
               ELSE [cons EXCEPT !.pc = "read", !.tail = ch.tail]
    /\ UNCHANGED <<notSpsc, ch, prod, accepted, popped>>

\* try_pop: buf[tail & mask].assume_init_read() moves the value out of the slot
ConsumerReadSlot ==
    /\ cons.pc = "read"
    /\ cons' = [cons EXCEPT !.pc = "store", !.value = ch.buf[SlotOf(ch, cons.tail)]]
    /\ ch' = [ch EXCEPT !.buf[SlotOf(ch, cons.tail)] = Uninit]
    /\ UNCHANGED <<notSpsc, prod, accepted, popped>>

\* try_pop: tail.store(tail + 1, Release), return Some(value)
ConsumerStoreTail ==
    /\ cons.pc = "store"
    /\ ch' = [ch EXCEPT !.tail = wrapping_add(cons.tail, 1)]
    /\ popped' = Append(popped, cons.value)
    /\ cons' = ConsIdle
    /\ UNCHANGED <<notSpsc, prod, accepted>>

\* Drop for Consumer
ConsumerDrop ==
    /\ cons.pc = "idle"
    /\ ch' = [ch EXCEPT !.consumer_closed = TRUE]
    /\ cons' = [cons EXCEPT !.pc = "dropped"]
    /\ UNCHANGED <<notSpsc, prod, accepted, popped>>

\* both halves are gone: the last Arc<Inner> is released and Inner is dropped
InnerDrop ==
    /\ prod.pc = "dropped" /\ cons.pc = "dropped"
    /\ last_op.kind # "drop_inner"
    /\ LET d == Drop_Inner(ch) IN
         /\ ch' = d.q
         /\ last_op' = [kind |-> "drop_inner", slots |-> d.slots, dropped |-> d.dropped,
                         head |-> ch.head, tail |-> ch.tail]
    /\ UNCHANGED <<ptyVars, emuVars, renderVars, tree, app, prod, cons, accepted, popped>>

SpscNext ==
    \/ ProducerCall
    \/ ProducerLoadClosed
    \/ ProducerLoadTail
    \/ ProducerWriteSlot
    \/ ProducerStoreHead
    \/ ProducerRecheck
    \/ ProducerDrop
    \/ ConsumerLoad
    \/ ConsumerReadSlot
    \/ ConsumerStoreTail
    \/ ConsumerDrop

DropNext ==
    \/ ProducerCall
    \/ ProducerLoadClosed
    \/ ProducerLoadTail
    \/ ProducerWriteSlot
    \/ ProducerStoreHead
    \/ ProducerRecheck
    \/ ProducerDrop
    \/ ConsumerLoad
    \/ ConsumerReadSlot
    \/ ConsumerStoreTail
    \/ ConsumerDrop
    \/ InnerDrop

\* C1: the values try_pop returned are a prefix of the values whose push returned
\* Ok (nothing duplicated, reordered or invented), and between two try_pop calls
\* the accepted values are exactly those popped followed by those still in the
\* ring, so that none is lost and each is popped once if the consumer goes on.
C1_FifoExactlyOnce ==
    /\ IsPrefix(popped, accepted)
    /\ cons.pc \in {"idle", "dropped"} => popped \o Items(ch) = accepted

\* three values popped in order while a further accepted one waits in the ring,
\* the head counter having wrapped past zero, after a push_blocking that waited
C1_Witness ==
    /\ Len(popped) >= 3
    /\ Len(accepted) > Len(popped)
    /\ ch.head < ch.tail
    /\ prod.blocking /\ prod.spins > 0 /\ prod.pc = "idle"

(***************************************************************************)
(* pty.rs: PtyHandle::write, Drop for PtyHandle and the writer thread      *)
(***************************************************************************)
PtyInit ==
    /\ write_q = Inner_new(WriteDepth)
    /\ pty = [PtyUnused EXCEPT !.input_tx = TRUE]
    /\ writer = [pc |-> "pop", did_work |-> FALSE, chunk |-> NoChunk, exit |-> "none"]
    /\ master = <<>>
    /\ write_ok = <<>>
    /\ ch = Inner_new(0)
    /\ prod = [ProdIdle EXCEPT !.pc = "dropped"]
    /\ cons = [ConsIdle EXCEPT !.pc = "dropped"]
    /\ accepted = <<>>
    /\ popped = <<>>
    /\ term = Term_new(1, 1)
    /\ render_cache = <<>>
    /\ input_q = Inner_new(0)
    /\ control_q = Inner_new(0)
    /\ parser = [ParserStart EXCEPT !.pc = "exited"]
    /\ reader = [ReaderStart EXCEPT !.pc = "exited"]
    /\ ui = [UiStart EXCEPT !.pc = "dropped", !.input_tx = FALSE]
    /\ render_grid = <<>>
    /\ reply = NoReply
    /\ dirty = FALSE
    /\ hist = HistStart
    /\ tree = SplitTree_new(0)
    /\ app = AppStart
    /\ last_op = NoOp
    /\ pb = PaneBuffer_new

\* PtyHandle::write(data): Ok at once for empty data, else push_blocking's first
\* try_push; Ok is followed by writer_waker.unpark()
PtyWrite ==
    /\ pty.pc = "idle" /\ pty.input_tx
    /\ pty.calls < MaxWrites
    /\ \E len \in BufLens :
         LET data == Buffer(pty.calls + 1, len)
             r == try_push(write_q, data)
             p == [pty EXCEPT !.calls = pty.calls + 1, !.data = data, !.waited = FALSE,
                              !.after_error = writer.pc = "exited" /\ writer.exit = "write_error"]
         IN  IF len = 0
             THEN /\ pty' = [p EXCEPT !.result = "ok"]
                  /\ write_ok' = Append(write_ok, data)
                  /\ UNCHANGED write_q
             ELSE IF r.ok
             THEN /\ pty' = [p EXCEPT !.result = "ok"]
                  /\ write_ok' = Append(write_ok, data)
                  /\ write_q' = r.q
             ELSE /\ pty' = [p EXCEPT !.pc = "recheck", !.result = "none", !.waited = TRUE]
                  /\ UNCHANGED <<write_q, write_ok>>
    /\ UNCHANGED <<notPty, writer, master>>

\* (a variant that gives up after the first failed try_push)
PtyWriteGivesUp ==
    /\ pty.pc = "recheck"
    /\ pty' = [pty EXCEPT !.pc = "idle", !.result = "err"]
    /\ UNCHANGED <<notPty, write_q, write_ok, writer, master>>

\* push_blocking in PtyHandle::write after Err(v): an error when the consumer is
\* closed, else try_push again
PtyWriteRetry ==
    /\ pty.pc = "recheck"
    /\ IF write_q.consumer_closed
       THEN /\ pty' = [pty EXCEPT !.pc = "idle", !.result = "err"]
            /\ UNCHANGED <<write_q, write_ok>>
       ELSE LET r == try_push(write_q, pty.data) IN
            IF r.ok
            THEN /\ pty' = [pty EXCEPT !.pc = "idle", !.result = "ok"]
                 /\ write_ok' = Append(write_ok, pty.data)
                 /\ write_q' = r.q
            ELSE UNCHANGED <<pty, write_q, write_ok>>
    /\ UNCHANGED <<notPty, writer, master>>

\* Drop for PtyHandle: input_tx.take() drops the producer, then unpark
PtyDrop ==
    /\ pty.pc = "idle" /\ pty.input_tx
    /\ pty' = [pty EXCEPT !.input_tx = FALSE]
    /\ write_q' = [write_q EXCEPT !.producer_closed = TRUE]
    /\ UNCHANGED <<notPty, writer, master, write_ok>>

\* the writer thread returns: input_rx is dropped with the closure
WriterExit(w, why) == [w EXCEPT !.pc = "exited", !.exit = why, !.chunk = NoChunk]

\* writer thread: `while let Some(chunk) = input_rx.try_pop()`, skipping empty chunks
WriterPop ==
    /\ writer.pc = "pop"
    /\ LET r == try_pop(write_q) IN
       /\ write_q' = r.q
       /\ writer' = IF ~r.some THEN [writer EXCEPT !.pc = "check"]
                     ELSE IF r.value.len = 0 THEN writer
                     ELSE [writer EXCEPT !.pc = "write", !.chunk = r.value]
    /\ UNCHANGED <<notPty, pty, master, write_ok>>

\* writer thread: writer.write_all(&chunk): the whole chunk, or an error after a
\* part of it, which ends the thread
WriterWriteAll ==
    /\ writer.pc = "write"
    /\ \/ /\ master' = Append(master, writer.chunk)
          /\ writer' = [writer EXCEPT !.pc = "pop", !.did_work = TRUE, !.chunk = NoChunk]
          /\ UNCHANGED write_q
       \/ \E part \in 0 .. writer.chunk.len - 1 :
            /\ master' = Append(master, Buffer(writer.chunk.id, part))
            /\ writer' = WriterExit(writer, "write_error")
            /\ write_q' = DropConsumer(write_q)
    /\ UNCHANGED <<notPty, pty, write_ok>>

\* writer thread: `if !did_work { if input_rx.is_producer_closed() { return; } .. }`
WriterReturnsOnConsumerFlag(w, q) == ~w.did_work /\ q.consumer_closed
WriterReturns(w, q) == ~w.did_work /\ q.producer_closed

\* writer thread, the queue found empty: after work go round the loop again, else
\* return when the producer is closed, else park_timeout and go round
WriterCheck ==
    /\ writer.pc = "check"
    /\ IF WriterReturns(writer, write_q)
       THEN /\ writer' = WriterExit(writer, "closed")
            /\ write_q' = DropConsumer(write_q)
       ELSE /\ writer' = [writer EXCEPT !.pc = "pop", !.did_work = FALSE]
            /\ UNCHANGED write_q
    /\ UNCHANGED <<notPty, pty, master, write_ok>>

WriterNext == WriterPop \/ WriterWriteAll \/ WriterCheck

PtyNext ==
    \/ PtyWrite
    \/ PtyWriteRetry
    \/ PtyDrop
    \/ WriterPop
    \/ WriterWriteAll
    \/ WriterCheck

(***************************************************************************)
(* emulator.rs: the parser thread, the thread that owns the emulator, and  *)
(* the PTY reader thread of pty.rs feeding a TerminalEmulatorHandle        *)
(***************************************************************************)
\* an emulator used by its owner alone: process() goes to the input queue
EmuInit ==
    /\ \E size \in StartSizes : term = Term_new(size[1], size[2])
    /\ render_cache = <<>>
    /\ input_q = Inner_new(InputDepth)
    /\ control_q = Inner_new(ControlDepth)
    /\ parser = ParserStart
    /\ reader = [ReaderStart EXCEPT !.pc = "exited"]
    /\ ui = UiStart
    /\ render_grid = <<>>
    /\ reply = NoReply
    /\ dirty = TRUE
    /\ hist = HistStart
    /\ tree = SplitTree_new(0)
    /\ app = AppStart
    /\ last_op = NoOp
    /\ pb = PaneBuffer_new
    /\ ch = Inner_new(0)
    /\ prod = [ProdIdle EXCEPT !.pc = "dropped"]
    /\ cons = [ConsIdle EXCEPT !.pc = "dropped"]
    /\ accepted = <<>>
    /\ popped = <<>>
    /\ write_q = Inner_new(0)
    /\ pty = PtyUnused
    /\ writer = WriterUnused
    /\ master = <<>>
    /\ write_ok = <<>>

\* a pane: take_parser_handle() gave the input producer to the PTY reader thread
PaneInit ==
    /\ \E size \in StartSizes : term = Term_new(size[1], size[2])
    /\ render_cache = <<>>
    /\ input_q = Inner_new(InputDepth)
    /\ control_q = Inner_new(ControlDepth)
    /\ parser = ParserStart
    /\ reader = ReaderStart
    /\ ui = [UiStart EXCEPT !.input_tx = FALSE]
    /\ render_grid = <<>>
    /\ reply = NoReply
    /\ dirty = TRUE
    /\ hist = HistStart
    /\ tree = SplitTree_new(0)
    /\ app = AppStart
    /\ last_op = NoOp
    /\ pb = PaneBuffer_new
    /\ ch = Inner_new(0)
    /\ prod = [ProdIdle EXCEPT !.pc = "dropped"]
    /\ cons = [ConsIdle EXCEPT !.pc = "dropped"]
    /\ accepted = <<>>
    /\ popped = <<>>
    /\ write_q = Inner_new(0)
    /\ pty = PtyUnused
    /\ writer = WriterUnused
    /\ master = <<>>
    /\ write_ok = <<>>

\* ---- the PTY reader thread (pty.rs) ----

\* push_blocking gives the value up when the consumer is closed
PushFailedWhenFull(q) == q.consumer_closed \/ IsFull(q, q.head, q.tail)
PushFailed(q) == q.consumer_closed

\* reader.read(&mut buf) returned Ok(n), n > 0: a chunk, here of one operation,
\* and emulator.process(&buf[..n]) makes the first try_push of push_blocking
ReaderRead ==
    /\ reader.pc = "read"
    /\ hist.on => hist.read < MaxChunks
    /\ \E op \in Ops :
         LET chunk == [id |-> Read(hist).read, op |-> op]
             r == try_push(input_q, chunk)
         IN  IF r.ok
             THEN /\ input_q' = r.q
                  /\ reader' = [reader EXCEPT !.pc = "notify", !.waited = FALSE]
                  /\ hist' = Pushed(Read(hist))
             ELSE /\ reader' = [reader EXCEPT !.pc = "push", !.chunk = chunk,
                                              !.waited = TRUE]
                  /\ hist' = Read(hist)
                  /\ UNCHANGED input_q
    /\ UNCHANGED <<notEmu, term, render_cache, control_q, parser, ui, render_grid,
                   reply, dirty>>

\* push_blocking on the input queue after Err(v)
ReaderPush ==
    /\ reader.pc = "push"
    /\ IF PushFailed(input_q)
       THEN /\ reader' = [reader EXCEPT !.pc = "notify", !.chunk = NoCmd]
            /\ UNCHANGED <<input_q, hist>>
       ELSE LET r == try_push(input_q, reader.chunk) IN
            IF r.ok
            THEN /\ input_q' = r.q
                 /\ reader' = [reader EXCEPT !.pc = "notify", !.chunk = NoCmd]
                 /\ hist' = Pushed(hist)
            ELSE UNCHANGED <<input_q, reader, hist>>
    /\ UNCHANGED <<notEmu, term, render_cache, control_q, parser, ui, render_grid,
                   reply, dirty>>

\* on_output_ready(): the pane's dirty flag is set
ReaderNotify ==
    /\ reader.pc = "notify"
    /\ dirty' = TRUE
    /\ reader' = [reader EXCEPT !.pc = "read"]
    /\ UNCHANGED <<notEmu, term, render_cache, input_q, control_q, parser, ui,
                   render_grid, reply, hist>>

\* ---- the parser thread (TerminalEmulator::new) ----

\* the positions of the parser thread at which it pops and applies input chunks
InputDrainPcsAnywhere == {"input", "cursor"}
InputDrainPcs == {"input"}

\* history: the grid changed since the last delta extract / full extract
Modified(h) == [h EXCEPT !.quiet = FALSE, !.after_full = FALSE]

\* `while let Some(data) = input_rx.try_pop() { processor.advance(term, &data) }`
ParserInput ==
    /\ parser.pc \in InputDrainPcs
    /\ LET r == try_pop(input_q) IN
       IF r.some
       THEN /\ input_q' = r.q
            /\ term' = processor_advance(term, r.value.op)
            /\ parser' = [parser EXCEPT !.did_work = TRUE]
            /\ hist' = Applied(Modified(hist), r.value.id)
       ELSE /\ parser' = [parser EXCEPT !.pc = IF parser.pc = "input" THEN "control" ELSE @]
            /\ UNCHANGED <<input_q, term, hist>>
    /\ UNCHANGED <<notEmu, render_cache, control_q, reader, ui, render_grid, reply, dirty>>

\* handle_control_command for the commands without a reply
HandleInput(t, op) == processor_advance(t, op)
HandleResizeIgnored(t, cols, rows) == t
HandleResize(t, cols, rows) == Term_resize(t, cols, rows)
HandleScroll(t, delta) == scroll_display(t, delta)

\* handle_control_command, ExtractFull: the terminal and the parser's cache after it
HandleExtractFull(t, cache) == [term |-> t, cache |-> cache]

\* handle_control_command, ExtractDelta: the rows sent with the delta
DeltaRows(delta, cache) ==
    IF delta.full THEN [i \in 1 .. Len(cache) |-> <<i - 1, cache[i]>>]
    ELSE LET kept == SelectSeq(delta.dirty_rows, LAMBDA row : row < Len(cache))
         IN  [k \in 1 .. Len(kept) |-> <<kept[k], cache[kept[k] + 1]>>]

\* `while let Some(cmd) = control_rx.try_pop()`: one command handled; for
\* ExtractDelta the extraction, the cursor and the reply follow in ParserReplyDelta
\* `did_work = true` for a command popped from the control queue
Popped(p) == [p EXCEPT !.did_work = TRUE, !.handled = @ + 1]

ParserControl ==
    /\ parser.pc = "control"
    /\ LET r == try_pop(control_q)
           cmd == r.value
       IN
       IF ~r.some
       THEN /\ parser' = [parser EXCEPT !.pc = "check"]
            /\ UNCHANGED <<control_q, term, render_cache, reply, hist>>
       ELSE
         /\ control_q' = r.q
         /\ CASE cmd.kind = "Input" ->
                   /\ term' = HandleInput(term, cmd.op)
                   /\ hist' = Modified(hist)
                   /\ parser' = Popped(parser)
                   /\ UNCHANGED <<render_cache, reply>>
              [] cmd.kind = "Resize" ->
                   /\ term' = HandleResize(term, cmd.cols, cmd.rows)
                   /\ hist' = [Modified(hist) EXCEPT
                                 !.resized = @ \/ <<cmd.cols, cmd.rows>> # <<term.cols, term.rows>>]
                   /\ parser' = Popped(parser)
                   /\ UNCHANGED <<render_cache, reply>>
              [] cmd.kind = "Scroll" ->
                   /\ term' = HandleScroll(term, cmd.delta)
                   /\ hist' = Modified(hist)
                   /\ parser' = Popped(parser)
                   /\ UNCHANGED <<render_cache, reply>>
              [] cmd.kind = "QuerySize" ->
                   /\ reply' = [kind |-> "size", value |-> <<term.cols, term.rows>>]
                   /\ parser' = Popped(parser)
                   /\ UNCHANGED <<term, render_cache, hist>>
              [] cmd.kind = "QueryCursor" ->
                   /\ reply' = [kind |-> "cursor", value |-> <<term.cursor.col, term.cursor.line>>]
                   /\ parser' = Popped(parser)
                   /\ UNCHANGED <<term, render_cache, hist>>
              [] cmd.kind = "QueryDisplayOffset" ->
                   /\ reply' = [kind |-> "offset", value |-> term.display_offset]
                   /\ parser' = Popped(parser)
                   /\ UNCHANGED <<term, render_cache, hist>>
              [] cmd.kind = "ExtractFull" ->
                   LET after == HandleExtractFull(term, render_cache) IN
                   /\ reply' = [kind |-> "full", lines |-> extract_grid_full_from_term(term)]
                   /\ term' = after.term
                   /\ render_cache' = after.cache
                   /\ hist' = [hist EXCEPT !.after_full = TRUE]
                   /\ parser' = Popped(parser)
              [] cmd.kind = "Shutdown" ->
                   /\ parser' = [Popped(parser) EXCEPT !.pc = "return"]
                   /\ UNCHANGED <<term, render_cache, reply, hist>>
              [] cmd.kind = "ExtractDelta" ->
                   LET x == extract_grid_delta_from_term(term, render_cache) IN
                   /\ term' = x.term
                   /\ render_cache' = x.out
                   /\ parser' = [Popped(parser) EXCEPT
                        !.pc = "cursor",
                        !.delta = [kind |-> "delta",
                                   delta |-> x.delta,
                                   rows |-> DeltaRows(x.delta, x.out),
                                   size |-> <<term.cols, term.rows>>,
                                   insert |-> term.insert,
                                   quiet |-> hist.quiet,
                                   resized |-> hist.resized,
                                   after_full |-> hist.after_full,
                                   stale |-> Len(hist.applied) < cmd.enqueued],
                        !.snap = [cursor |-> term.cursor,
                                  view |-> extract_grid_full_from_term(term),
                                  applied |-> Len(hist.applied)]]
                   /\ hist' = [hist EXCEPT !.quiet = TRUE, !.resized = FALSE,
                                           !.after_full = FALSE]
                   /\ UNCHANGED reply
    /\ UNCHANGED <<notEmu, input_q, reader, ui, render_grid, dirty>>

\* handle_control_command, ExtractDelta: the cursor is read and the reply is sent
\* handle_control_command returned true for Shutdown: the thread returns and
\* drops input_rx and control_rx
ParserReturn ==
    /\ parser.pc = "return"
    /\ parser' = [parser EXCEPT !.pc = "exited"]
    /\ input_q' = DropConsumer(input_q)
    /\ control_q' = DropConsumer(control_q)
    /\ UNCHANGED <<notEmu, term, render_cache, reader, ui, render_grid, reply, dirty, hist>>

ParserReplyDelta ==
    /\ parser.pc = "cursor"
    /\ reply' = parser.delta
                   @@ [cursor |-> <<term.cursor.col, term.cursor.line>>,
                       view |-> extract_grid_full_from_term(term),
                       snap |-> parser.snap,
                       applied |-> Len(hist.applied)]
    /\ parser' = [parser EXCEPT !.pc = "control", !.delta = NoReply, !.snap = NoSnap]
    /\ UNCHANGED <<notEmu, term, render_cache, input_q, control_q, reader, ui,
                   render_grid, dirty, hist>>

\* both queues found empty: return when both producers are closed, else
\* park_timeout; then the loop starts again with did_work = false
ParserCheck ==
    /\ parser.pc = "check"
    /\ IF ~parser.did_work /\ input_q.producer_closed /\ control_q.producer_closed
       THEN /\ parser' = [parser EXCEPT !.pc = "exited"]
            /\ input_q' = DropConsumer(input_q)
            /\ control_q' = DropConsumer(control_q)
       ELSE /\ parser' = [parser EXCEPT !.pc = "input", !.did_work = FALSE]
            /\ UNCHANGED <<input_q, control_q>>
    /\ UNCHANGED <<notEmu, term, render_cache, reader, ui, render_grid, reply, dirty, hist>>

\* ---- the thread that owns the TerminalEmulator ----

\* the calls of the owner: process(data), resize, scroll, size, cursor_position,
\* display_offset, extract_grid, extract_grid_delta_with_cursor_into
Calls ==
    [kind : {"Process"}, op : Ops]
        \cup [kind : {"Resize"}, size : ResizeTo]
        \cup [kind : {"Scroll"}, delta : ScrollDeltas]
        \cup [kind : Replying]
\* the calls slint_app makes on a pane's emulator while the PTY reader feeds it
PaneCalls ==
    [kind : {"ExtractDelta", "QueryCursor"}]
        \cup [kind : {"Scroll"}, delta : {1}]

\* the queue a call goes to and what is pushed: process() pushes the bytes on the
\* input queue while the owner holds input_tx, else ControlCommand::Input
ToInputQueue(u, call) == call.kind = "Process" /\ u.input_tx
Message(u, h, call) ==
    CASE call.kind = "Process" /\ u.input_tx -> [id |-> Pushed(h).pushed, op |-> call.op]
      [] call.kind = "Process" -> [kind |-> "Input", op |-> call.op]
      [] call.kind = "Resize" -> [kind |-> "Resize", cols |-> call.size[1], rows |-> call.size[2]]
      [] call.kind = "ExtractDelta" -> [kind |-> "ExtractDelta", enqueued |-> h.pushed]
      [] OTHER -> call

\* after the push returned Ok: wait for the reply, join the parser thread (drop),
\* or return
SentDetaches(u, call) ==
    LET v == [u EXCEPT !.issued = IF ToInputQueue(u, call) THEN @ ELSE @ + 1] IN
    CASE call.kind \in Replying -> [v EXCEPT !.pc = "wait", !.cmd = call]
      [] call.kind = "Shutdown" -> [v EXCEPT !.pc = "dropped", !.cmd = NoCmd]
      [] OTHER -> [v EXCEPT !.pc = "idle", !.cmd = NoCmd]
Sent(u, call) ==
    LET v == [u EXCEPT !.issued = IF ToInputQueue(u, call) THEN @ ELSE @ + 1] IN
    CASE call.kind \in Replying -> [v EXCEPT !.pc = "wait", !.cmd = call]
      [] call.kind = "Shutdown" -> [v EXCEPT !.pc = "join", !.cmd = NoCmd]
      [] OTHER -> [v EXCEPT !.pc = "idle", !.cmd = NoCmd]

\* the first try_push of the call's push_blocking
\* (u0: the calling thread's own state as the call begins)
UiCallFrom(u0, calls) ==
    /\ ui.pc = "idle"
    /\ ui.calls < MaxCalls
    /\ \E call \in calls :
         LET u == [u0 EXCEPT !.calls = @ + 1, !.last = NoReply]
             to_input == ToInputQueue(ui, call)
             r == try_push(IF to_input THEN input_q ELSE control_q, Message(ui, hist, call))
         IN  IF r.ok
             THEN /\ ui' = Sent(u, call)
                  /\ input_q' = IF to_input THEN r.q ELSE input_q
                  /\ control_q' = IF to_input THEN control_q ELSE r.q
                  /\ hist' = IF to_input THEN Pushed(hist) ELSE hist
             ELSE /\ ui' = [u EXCEPT !.pc = "send", !.cmd = call]
                  /\ UNCHANGED <<input_q, control_q, hist>>
    /\ UNCHANGED <<notEmu, term, render_cache, parser, reader, render_grid, reply, dirty>>

UiCall(calls) == UiCallFrom(ui, calls)

OwnerCall == UiCall(Calls)

\* Drop for TerminalEmulator: send_control_blocking(Shutdown), first try_push
OwnerDrop ==
    /\ ui.pc = "idle"
    /\ LET call == [kind |-> "Shutdown"]
           r == try_push(control_q, Message(ui, hist, call))
       IN  IF r.ok
           THEN /\ ui' = Sent([ui EXCEPT !.last = NoReply], call)
                /\ control_q' = r.q
           ELSE /\ ui' = [ui EXCEPT !.pc = "send", !.cmd = call, !.last = NoReply]
                /\ UNCHANGED control_q
    /\ UNCHANGED <<notEmu, term, render_cache, input_q, parser, reader, render_grid,
                   reply, dirty, hist>>

\* Drop for TerminalEmulator: handle.join() returns once the parser thread has
\* exited; then the fields are dropped, control_tx and input_tx among them
OwnerJoin ==
    /\ ui.pc = "join"
    /\ parser.pc = "exited"
    /\ ui' = [ui EXCEPT !.pc = "dropped", !.input_tx = FALSE]
    /\ control_q' = [control_q EXCEPT !.producer_closed = TRUE]
    /\ input_q' = [input_q EXCEPT !.producer_closed = @ \/ ui.input_tx]
    /\ UNCHANGED <<notEmu, term, render_cache, parser, reader, render_grid, reply,
                   dirty, hist>>
PaneCall == UiCall(PaneCalls)

\* push_blocking after Err(v): the call returns without effect when the consumer
\* is closed, else try_push again
UiSend ==
    /\ ui.pc = "send"
    /\ LET to_input == ToInputQueue(ui, ui.cmd)
           q == IF to_input THEN input_q ELSE control_q
           r == try_push(q, Message(ui, hist, ui.cmd))
       IN  IF PushFailed(q)
           THEN /\ ui' = [ui EXCEPT !.pc = "idle", !.cmd = NoCmd]
                /\ UNCHANGED <<input_q, control_q, hist>>
           ELSE IF r.ok
           THEN /\ ui' = Sent(ui, ui.cmd)
                /\ input_q' = IF to_input THEN r.q ELSE input_q
                /\ control_q' = IF to_input THEN control_q ELSE r.q
                /\ hist' = IF to_input THEN Pushed(hist) ELSE hist
           ELSE UNCHANGED <<ui, input_q, control_q, hist>>
    /\ UNCHANGED <<notEmu, term, render_cache, parser, reader, render_grid, reply, dirty>>

\* (a variant that does not clear `out` for a full delta)
MergeDelta_no_clear(out, r) ==
    LET idx == {r.rows[k][1] : k \in 1 .. Len(r.rows)}
    IN  [i \in 1 .. MaxOf(Len(out), Len(r.rows)) |->
           IF i - 1 \in idx
           THEN r.rows[CHOOSE k \in 1 .. Len(r.rows) : r.rows[k][1] = i - 1][2]
           ELSE out[i]]

\* extract_grid_delta_with_cursor_into after rx.recv(): the rows of the reply
\* are written into the caller's cache `out`
MergeDelta(out, r) ==
    LET idx == {r.rows[k][1] : k \in 1 .. Len(r.rows)}
        max_row == IF idx = {} THEN 0 ELSE (CHOOSE m \in idx : \A i \in idx : i <= m) + 1
        base == IF r.delta.full THEN <<>> ELSE out
        len == MaxOf(Len(base), max_row)
    IN  [i \in 1 .. len |->
           IF i - 1 \in idx
           THEN LET k == CHOOSE k \in 1 .. Len(r.rows) :
                             /\ r.rows[k][1] = i - 1
                             /\ \A j \in k + 1 .. Len(r.rows) : r.rows[j][1] # i - 1
                IN  r.rows[k][2]
           ELSE IF i <= Len(base) THEN base[i] ELSE GridLine(<<>>)]

\* rx.recv() returns the reply of the parser thread
UiRecv ==
    /\ ui.pc = "wait"
    /\ reply.kind # "none"
    /\ render_grid' = IF reply.kind = "delta" THEN MergeDelta(render_grid, reply)
                      ELSE render_grid
    /\ ui' = [ui EXCEPT !.pc = "idle", !.cmd = NoCmd, !.last = reply]
    /\ reply' = NoReply
    /\ UNCHANGED <<notEmu, term, render_cache, input_q, control_q, parser, reader,
                   dirty, hist>>

EmuNext ==
    \/ OwnerCall
    \/ OwnerDrop
    \/ OwnerJoin
    \/ ParserReturn
    \/ UiSend
    \/ UiRecv
    \/ ParserInput
    \/ ParserControl
    \/ ParserReplyDelta
    \/ ParserCheck

\* the owner passes another, empty Vec as `out` to its next delta extract
OwnerNewCache ==
    /\ ui.pc = "idle"
    /\ render_grid # <<>>
    /\ render_grid' = <<>>
    /\ UNCHANGED <<notEmu, term, render_cache, input_q, control_q, parser, reader, ui,
                   reply, dirty, hist>>

CacheNext ==
    \/ OwnerCall
    \/ OwnerNewCache
    \/ UiSend
    \/ UiRecv
    \/ ParserInput
    \/ ParserControl
    \/ ParserReplyDelta
    \/ ParserCheck

\* ---- render_frame (slint_app.rs) for one pane ----

\* content_dirty = ps.dirty.load(); cursor_changed || selection_active is chosen
\* freely; the pane is skipped when none of them holds
FrameLoad ==
    /\ ui.pc = "idle" /\ ui.frame.stage = "none"
    /\ ui.calls < MaxCalls
    /\ \E other \in BOOLEAN :
         /\ dirty \/ other
         /\ ui' = [ui EXCEPT !.frame.stage = "extract", !.frame.content_dirty = dirty,
                             !.frame.extracted = FALSE]
    /\ UNCHANGED <<notEmu, term, render_cache, input_q, control_q, parser, reader,
                   render_grid, reply, dirty, hist>>

\* `if content_dirty || ps.render_grid.is_empty()`: extract the delta into
\* render_grid, else ask for the cursor position only
FrameExtract ==
    /\ ui.frame.stage = "extract"
    /\ LET extract == ui.frame.content_dirty \/ render_grid = <<>> IN
       UiCallFrom([ui EXCEPT !.frame.stage = "latch", !.frame.extracted = extract],
                  {[kind |-> IF extract THEN "ExtractDelta" ELSE "QueryCursor"]})

\* renderer.text_renderer.set_pane_content(pane_id, &ps.render_grid, ..)
FrameLatch ==
    /\ ui.pc = "idle" /\ ui.frame.stage = "latch"
    /\ ui' = [ui EXCEPT !.frame.stage = "store", !.frame.latched = render_grid]
    /\ UNCHANGED <<notEmu, term, render_cache, input_q, control_q, parser, reader,
                   render_grid, reply, dirty, hist>>

\* ps.dirty.store(false, Ordering::Relaxed)
FrameStore ==
    /\ ui.frame.stage = "store"
    /\ dirty' = FALSE
    /\ ui' = [ui EXCEPT !.frame.stage = "none"]
    /\ UNCHANGED <<notEmu, term, render_cache, input_q, control_q, parser, reader,
                   render_grid, reply, hist>>

FrameNext ==
    \/ ReaderRead
    \/ ReaderPush
    \/ ReaderNotify
    \/ FrameLoad
    \/ FrameExtract
    \/ FrameLatch
    \/ FrameStore
    \/ UiRecv
    \/ ParserInput
    \/ ParserControl
    \/ ParserReplyDelta
    \/ ParserCheck

PaneNext ==
    \/ ReaderRead
    \/ ReaderPush
    \/ ReaderNotify
    \/ PaneCall
    \/ UiSend
    \/ UiRecv
    \/ ParserInput
    \/ ParserControl
    \/ ParserReplyDelta
    \/ ParserCheck

\* a pane whose PTY never stops producing output; the run keeps no history, and
\* the UI thread has one call left to make
LiveInit ==
    /\ term = Term_new(1, 1)
    /\ render_cache = <<>>
    /\ input_q = Inner_new(InputDepth)
    /\ control_q = Inner_new(ControlDepth)
    /\ parser = ParserStart
    /\ reader = ReaderStart
    /\ ui = [UiStart EXCEPT !.input_tx = FALSE, !.calls = MaxCalls - 1]
    /\ render_grid = <<>>
    /\ reply = NoReply
    /\ dirty = TRUE
    /\ hist = [HistStart EXCEPT !.on = FALSE]
    /\ tree = SplitTree_new(0)
    /\ app = AppStart
    /\ last_op = NoOp
    /\ pb = PaneBuffer_new
    /\ ch = Inner_new(0)
    /\ prod = [ProdIdle EXCEPT !.pc = "dropped"]
    /\ cons = [ConsIdle EXCEPT !.pc = "dropped"]
    /\ accepted = <<>>
    /\ popped = <<>>
    /\ write_q = Inner_new(0)
    /\ pty = PtyUnused
    /\ writer = WriterUnused
    /\ master = <<>>
    /\ write_ok = <<>>

\* the control queries: size, cursor_position, display_offset, extract_grid,
\* extract_grid_delta_with_cursor_into
QueryCall == UiCall([kind : Replying])

ReaderNext == ReaderRead \/ ReaderPush \/ ReaderNotify
ParserNext == ParserInput \/ ParserControl \/ ParserReplyDelta \/ ParserCheck

LiveNext ==
    \/ ReaderRead
    \/ ReaderPush
    \/ ReaderNotify
    \/ QueryCall
    \/ UiRecv
    \/ ParserInput
    \/ ParserControl
    \/ ParserReplyDelta
    \/ ParserCheck

\* the non-empty buffers for which PtyHandle::write returned Ok, in call order
WrittenOk == SelectSeq(write_ok, LAMBDA b : b.len > 0)
\* the chunk the writer thread holds between try_pop and write_all
WriterInHand == IF writer.pc = "write" THEN <<writer.chunk>> ELSE <<>>

(***************************************************************************)
(* The renderer under set_pane_content                                     *)
(***************************************************************************)
\* the first frame of a pane has happened: nothing latched yet
RenderInit ==
    /\ pb = PaneBuffer_new
    /\ last_op = NoOp
    /\ tree = SplitTree_new(0)
    /\ app = AppStart
    /\ ch = Inner_new(0)
    /\ prod = [ProdIdle EXCEPT !.pc = "dropped"]
    /\ cons = [ConsIdle EXCEPT !.pc = "dropped"]
    /\ accepted = <<>>
    /\ popped = <<>>
    /\ write_q = Inner_new(0)
    /\ pty = PtyUnused
    /\ writer = WriterUnused
    /\ master = <<>>
    /\ write_ok = <<>>
    /\ term = Term_new(1, 1)
    /\ render_cache = <<>>
    /\ input_q = Inner_new(0)
    /\ control_q = Inner_new(0)
    /\ parser = [ParserStart EXCEPT !.pc = "exited"]
    /\ reader = [ReaderStart EXCEPT !.pc = "exited"]
    /\ ui = [UiStart EXCEPT !.pc = "dropped", !.input_tx = FALSE]
    /\ render_grid = <<>>
    /\ reply = NoReply
    /\ dirty = FALSE
    /\ hist = HistStart

\* render_frame's call: the grid is the pane's render_grid, in which only the
\* rows of dirty_rows differ from the grid of the call before (every row may,
\* when the row count changed or dirty_rows is None); colours are 0 and 1
SetPaneContent ==
    /\ \E shape \in {<<1, 2>>, <<2, 1>>} :
       \E grid \in [1 .. shape[1] -> [cells : [1 .. shape[2] -> [bg : {0, 1}]]]] :
       \E dr \in {[some |-> FALSE, rows |-> {}]}
                        \cup [some : {TRUE}, rows : SUBSET (0 .. shape[1] - 1)] :
       \E default_bg \in {0, 1}, selection_bg \in {0, 1} :
       \E selection \in {[some |-> FALSE],
                         [some |-> TRUE, start |-> <<0, 0>>, end |-> <<0, 1>>]} :
         LET dirty_rows == IF dr.some
                           THEN [some |-> TRUE,
                                 rows |-> SelectSeq([k \in 1 .. shape[1] |-> k - 1],
                                                    LAMBDA r : r \in dr.rows)]
                           ELSE [some |-> FALSE]
             r == set_pane_content(pb, grid, dirty_rows, default_bg, selection, selection_bg)
         IN /\ (last_op.kind = "set_pane_content" /\ dr.some
                   /\ Len(last_op.grid) = Len(grid)) =>
                  \A k \in 1 .. Len(grid) :
                     (k - 1) \notin dr.rows => grid[k] = last_op.grid[k]
            /\ pb' = r.pb
            /\ last_op' = [kind |-> "set_pane_content", grid |-> grid,
                           default_bg |-> default_bg, selection |-> selection,
                           selection_bg |-> selection_bg, sel_rebuilt |-> r.sel_rebuilt,
                           before |-> [lines |-> pb.lines,
                                       content_bg_spans |-> pb.content_bg_spans,
                                       selection_bg_spans |-> pb.selection_bg_spans],
                           second |-> last_op.kind = "set_pane_content",
                           prev_default_bg |-> IF last_op.kind = "set_pane_content"
                                               THEN last_op.default_bg ELSE default_bg,
                           prev_selection |-> IF last_op.kind = "set_pane_content"
                                              THEN last_op.selection ELSE selection,
                           prev_selection_bg |-> IF last_op.kind = "set_pane_content"
                                                 THEN last_op.selection_bg ELSE selection_bg]
    /\ UNCHANGED notRender

RenderNext ==
    \/ SetPaneContent

\* a cell with an indexed colour is converted under some theme
ResolveIndexed ==
    /\ \E idx \in 0 .. 255 :
       \E theme \in {[ansi |-> [i \in 0 .. 15 |-> <<i, 2 * i, 255 - i>>]],
                      [ansi |-> [i \in 0 .. 15 |-> <<255 - 16 * i, 17 * i, 0>>]]} :
         last_op' = [kind |-> "alacritty_color_to_rgb", idx |-> idx, theme |-> theme,
                     color |-> alacritty_color_to_rgb(idx, theme)]
    /\ UNCHANGED <<notRender, pb>>

ColorNext ==
    \/ ResolveIndexed

(***************************************************************************)
(* The split tree under split, remove and adjust_ratio                     *)
(***************************************************************************)
\* WorkspaceManager::new: the first workspace holds pane 0, the next pane id is 1
TreeInit ==
    /\ tree = SplitTree_new(0)
    /\ app = AppStart
    /\ last_op = NoOp
    /\ pb = PaneBuffer_new
    /\ ch = Inner_new(0)
    /\ prod = [ProdIdle EXCEPT !.pc = "dropped"]
    /\ cons = [ConsIdle EXCEPT !.pc = "dropped"]
    /\ accepted = <<>>
    /\ popped = <<>>
    /\ write_q = Inner_new(0)
    /\ pty = PtyUnused
    /\ writer = WriterUnused
    /\ master = <<>>
    /\ write_ok = <<>>
    /\ term = Term_new(1, 1)
    /\ render_cache = <<>>
    /\ input_q = Inner_new(0)
    /\ control_q = Inner_new(0)
    /\ parser = [ParserStart EXCEPT !.pc = "exited"]
    /\ reader = [ReaderStart EXCEPT !.pc = "exited"]
    /\ ui = [UiStart EXCEPT !.pc = "dropped", !.input_tx = FALSE]
    /\ render_grid = <<>>
    /\ reply = NoReply
    /\ dirty = FALSE
    /\ hist = HistStart

\* the same tree in a manager that has handed out all pane ids but two
RatioInit ==
    /\ tree = SplitTree_new(0)
    /\ app = [AppStart EXCEPT !.next_pane_id = MaxPanes - 1]
    /\ last_op = NoOp
    /\ pb = PaneBuffer_new
    /\ ch = Inner_new(0)
    /\ prod = [ProdIdle EXCEPT !.pc = "dropped"]
    /\ cons = [ConsIdle EXCEPT !.pc = "dropped"]
    /\ accepted = <<>>
    /\ popped = <<>>
    /\ write_q = Inner_new(0)
    /\ pty = PtyUnused
    /\ writer = WriterUnused
    /\ master = <<>>
    /\ write_ok = <<>>
    /\ term = Term_new(1, 1)
    /\ render_cache = <<>>
    /\ input_q = Inner_new(0)
    /\ control_q = Inner_new(0)
    /\ parser = [ParserStart EXCEPT !.pc = "exited"]
    /\ reader = [ReaderStart EXCEPT !.pc = "exited"]
    /\ ui = [UiStart EXCEPT !.pc = "dropped", !.input_tx = FALSE]
    /\ render_grid = <<>>
    /\ reply = NoReply
    /\ dirty = FALSE
    /\ hist = HistStart

\* split_tree.split(target, direction, workspace_mgr.next_pane_id())
TreeSplit ==
    /\ app.next_pane_id <= MaxPanes
    /\ \E target \in PaneIds, direction \in {"Horizontal", "Vertical"} :
         LET new_pane == app.next_pane_id IN
         /\ tree' = split(tree, target, direction, new_pane)
         /\ last_op' = [kind |-> "split", pane |-> target, direction |-> direction,
                        new_pane |-> new_pane, before |-> tree]
    /\ app' = [app EXCEPT !.next_pane_id = @ + 1]
    /\ UNCHANGED notApp

TreeRemove ==
    /\ \E pane_id \in PaneIds :
         LET r == remove(tree, pane_id) IN
         /\ tree' = r.tree
         /\ last_op' = [kind |-> "remove", pane |-> pane_id, before |-> tree, result |-> r.ok]
    /\ UNCHANGED <<notApp, app>>

\* delta: a number of tenths, or the f32 that is not a number
TreeAdjustRatio ==
    /\ \E pane_id \in PaneIds, delta \in {Ratio(-5), Ratio(-1), Ratio(1), Ratio(5), NaN} :
         /\ tree' = adjust_ratio(tree, pane_id, delta)
         /\ last_op' = [kind |-> "adjust_ratio", pane |-> pane_id, delta |-> delta,
                        before |-> tree]
    /\ UNCHANGED <<notApp, app>>

\* ---- WorkspaceManager under any sequence of calls ----

MgrAdd ==
    /\ app.next_pane_id <= MaxPanes
    /\ app' = add_workspace(app)
    /\ last_op' = [kind |-> "add_workspace", before |-> app]
    /\ UNCHANGED <<notApp, tree>>

\* any id: of a workspace, of a closed one, or one not handed out yet
MgrClose ==
    /\ \E id \in 0 .. MaxPanes + 1 :
         /\ app' = close_workspace(app, id)
         /\ last_op' = [kind |-> "close_workspace", id |-> id, before |-> app]
    /\ UNCHANGED <<notApp, tree>>

MgrSelect ==
    /\ \E idx \in 0 .. MaxPanes + 1 :
         /\ app' = select_workspace(app, idx)
         /\ last_op' = [kind |-> "select_workspace", idx |-> idx, before |-> app]
    /\ UNCHANGED <<notApp, tree>>

\* next_pane_id(), and the split the caller makes with the id
MgrSplit ==
    /\ app.next_pane_id <= MaxPanes
    /\ LET i == app.active_index + 1
           new_pane_id == app.next_pane_id
       IN app' = [next_pane_id(app) EXCEPT
                    !.workspaces[i].split_tree =
                        split(@, app.workspaces[i].active_pane, "Horizontal", new_pane_id)]
    /\ last_op' = [kind |-> "next_pane_id", before |-> app]
    /\ UNCHANGED <<notApp, tree>>

MgrNext ==
    \/ MgrAdd
    \/ MgrClose
    \/ MgrSelect
    \/ MgrSplit

\* ---- the application: workspaces, pane states, dead panes ----

\* Cmd+T: add_workspace and spawn its pane
AppNewWorkspace ==
    /\ ~app.quit /\ app.next_pane_id <= MaxSpawns
    /\ app' = [add_workspace(app) EXCEPT !.pane_states = @ \cup {app.next_pane_id}]
    /\ last_op' = NoOp
    /\ UNCHANGED <<notApp, tree>>

\* Cmd+W: drop the pane states of the active workspace and close it
AppCloseWorkspace ==
    /\ ~app.quit /\ Len(app.workspaces) > 1
    /\ LET ws == app.workspaces[app.active_index + 1]
           gone == {pane_ids(ws.split_tree)[i] : i \in 1 .. Len(pane_ids(ws.split_tree))}
       IN app' = close_workspace([app EXCEPT !.pane_states = @ \ gone], ws.id)
    /\ last_op' = NoOp
    /\ UNCHANGED <<notApp, tree>>

\* Cmd+D: split the active pane, spawn the new pane and focus it
AppSplit ==
    /\ ~app.quit /\ app.next_pane_id <= MaxSpawns
    /\ \E direction \in {"Horizontal", "Vertical"} :
         LET i == app.active_index + 1
             ws == app.workspaces[i]
             new_pane_id == app.next_pane_id
             t == split(ws.split_tree, ws.active_pane, direction, new_pane_id)
         IN app' = [next_pane_id(app) EXCEPT
                      !.workspaces[i] = set_active_pane([ws EXCEPT !.split_tree = t],
                                                        new_pane_id),
                      !.pane_states = @ \cup {new_pane_id}]
    /\ last_op' = NoOp
    /\ UNCHANGED <<notApp, tree>>

\* a click on a pane, Cmd+] and Cmd+[, or Cmd+<digit>
AppFocus ==
    /\ ~app.quit
    /\ \/ \E clicked_pane \in PaneIds :
            /\ app.workspaces[app.active_index + 1].active_pane # clicked_pane
            /\ app' = [app EXCEPT !.workspaces[app.active_index + 1] =
                                      set_active_pane(@, clicked_pane)]
       \/ \E to \in {next_pane(app.workspaces[app.active_index + 1].split_tree,
                                app.workspaces[app.active_index + 1].active_pane),
                      prev_pane(app.workspaces[app.active_index + 1].split_tree,
                                app.workspaces[app.active_index + 1].active_pane)} :
            /\ to.some
            /\ app' = [app EXCEPT !.workspaces[app.active_index + 1] =
                                      set_active_pane(@, to.id)]
       \/ \E idx \in 0 .. Len(app.workspaces) - 1 : app' = select_workspace(app, idx)
    /\ last_op' = NoOp
    /\ UNCHANGED <<notApp, tree>>

\* the PTY reader thread of a pane: exited_clone.store(true)
PtyExit ==
    /\ ~app.quit
    /\ \E pid \in app.pane_states \ app.exited :
         app' = [app EXCEPT !.exited = @ \cup {pid}]
    /\ last_op' = NoOp
    /\ UNCHANGED <<notApp, tree>>

\* handle_dead_panes, as the timer calls it when any pane is dead; dead_panes
\* comes out of the HashMap in any order
HandleDeadPanes ==
    /\ ~app.quit
    /\ LET dead == app.pane_states \cap app.exited
           states == app.pane_states \ dead
           n == Cardinality(dead)
           ws_count == Len(app.workspaces)
       IN /\ dead # {}
          /\ \E dead_panes \in {o \in [1 .. n -> dead] :
                                     \A a, b \in 1 .. n : a # b => o[a] # o[b]} :
               LET RECURSIVE RemoveFrom(_, _)
                   RemoveFrom(t, k) ==
                       IF k > n THEN t ELSE RemoveFrom(remove(t, dead_panes[k]).tree, k + 1)
                   Cleaned(ws) ==
                       LET t == RemoveFrom(ws.split_tree, 1)
                           w == [ws EXCEPT !.split_tree = t]
                           live_ids == SelectSeq(pane_ids(t), LAMBDA pid : pid \in states)
                       IN IF ws.active_pane \in dead /\ live_ids # <<>>
                          THEN set_active_pane(w, Head(live_ids))
                          ELSE w
                   m1 == [app EXCEPT
                            !.pane_states = states,
                            !.exited = @ \ dead,
                            !.workspaces = [i \in 1 .. ws_count |-> Cleaned(@[i])],
                            !.active_index = ws_count - 1]
                   empty_ws_ids ==
                       SelectSeq([i \in 1 .. ws_count |-> m1.workspaces[i]],
                                 LAMBDA ws : \A k \in 1 .. Len(pane_ids(ws.split_tree)) :
                                                pane_ids(ws.split_tree)[k] \notin states)
                   RECURSIVE CloseFrom(_, _)
                   CloseFrom(m, k) ==
                       IF k > Len(empty_ws_ids) THEN m
                       ELSE CloseFrom(IF Len(m.workspaces) > 1
                                      THEN close_workspace(m, empty_ws_ids[k].id)
                                      ELSE m, k + 1)
                   m2 == CloseFrom(m1, 1)
                   max_idx == Len(m2.workspaces) - 1
               IN /\ app' = IF states = {}
                            THEN [m1 EXCEPT !.quit = TRUE]
                            ELSE IF m2.active_index > max_idx
                            THEN select_workspace(m2, max_idx)
                            ELSE m2
                  /\ last_op' = [kind |-> "handle_dead_panes", dead |-> dead,
                                 ws_count |-> ws_count,
                                 active |-> [i \in 1 .. ws_count |->
                                                app.workspaces[i].active_pane]]
    /\ UNCHANGED <<notApp, tree>>

AppNext ==
    \/ AppNewWorkspace
    \/ AppCloseWorkspace
    \/ AppSplit
    \/ AppFocus
    \/ PtyExit
    \/ HandleDeadPanes

TreeNext ==
    \/ TreeSplit
    \/ TreeRemove

RatioNext ==
    \/ TreeSplit
    \/ TreeRemove
    \/ TreeAdjustRatio

(***************************************************************************)
(* Specifications                                                          *)
(***************************************************************************)
SpecSpsc == SpscInit /\ [][SpscNext]_vars

SpecPty == PtyInit /\ [][PtyNext]_vars

\* the writer thread is scheduled as long as it can take a step
SpecPtyLive == PtyInit /\ [][PtyNext]_vars /\ WF_vars(WriterNext)

\* a push_blocking in progress keeps being scheduled, and so does the writer
\* thread, which pops until it returns and drops the consumer
SpecPushLive ==
    /\ PtyInit
    /\ [][PtyNext]_vars
    /\ WF_vars(PtyWriteRetry)
    /\ WF_vars(WriterNext)

SpecEmu == EmuInit /\ [][EmuNext]_vars

SpecPane == PaneInit /\ [][PaneNext]_vars

\* an owner that may start over with a new, empty cache
SpecCache == EmuInit /\ [][CacheNext]_vars

SpecDrop == SpscInit /\ [][DropNext]_vars

SpecTree == TreeInit /\ [][TreeNext]_vars

SpecApp == TreeInit /\ [][AppNext]_vars

SpecManager == TreeInit /\ [][MgrNext]_vars

SpecRender == RenderInit /\ [][RenderNext]_vars

SpecColor == RenderInit /\ [][ColorNext]_vars

SpecRatio == RatioInit /\ [][RatioNext]_vars

SpecFrame == PaneInit /\ [][FrameNext]_vars

\* every thread that can take a step eventually takes one
SpecLive ==
    /\ LiveInit
    /\ [][LiveNext]_vars
    /\ WF_vars(ReaderNext)
    /\ WF_vars(ParserNext)
    /\ WF_vars(UiRecv)

\* the delta and the rows a delta extract replied with
EmptyDelta(r) == ~r.delta.full /\ r.delta.dirty_rows = <<>>

\* C2: a delta extract that follows a completed delta extract with no input,
\* resize or scroll applied in between returns full = false and no dirty rows.
C2_SecondExtractEmpty ==
    (reply.kind = "delta" /\ reply.quiet) => EmptyDelta(reply)

\* C3: when the parser thread handles a delta extract, it has applied every
\* input chunk that was enqueued before the extract command was enqueued.
C3_ExtractSeesProcessed ==
    reply.kind = "delta" => ~reply.stale

\* C4: the rows and the cursor one delta extract replies with describe the grid
\* as it was when the extract began, and no input chunk is applied between the
\* beginning and the end of an extract.
C4_ExtractIsSnapshot ==
    /\ parser.pc = "cursor" =>
         /\ Len(hist.applied) = parser.snap.applied
         /\ term.cursor = parser.snap.cursor
    /\ reply.kind = "delta" =>
         /\ reply.applied = reply.snap.applied
         /\ reply.cursor = <<reply.snap.cursor.col, reply.snap.cursor.line>>
         /\ reply.view = reply.snap.view
         /\ \A k \in 1 .. Len(reply.rows) :
              reply.rows[k][2] = reply.snap.view[reply.rows[k][1] + 1]

\* a delta extract replied with rows, after at least one chunk was applied and
\* while another chunk was waiting in the input queue
C4_Witness ==
    /\ reply.kind = "delta"
    /\ reply.applied >= 1
    /\ Len(reply.rows) >= 1
    /\ Items(input_q) # <<>>

\* the ids of the chunks in the input queue, and of the chunk the reader holds
\* inside push_blocking
QueuedIds == [k \in 1 .. Len(Items(input_q)) |-> Items(input_q)[k].id]
ReaderInHand == IF reader.pc = "push" THEN <<reader.chunk.id>> ELSE <<>>

C7_QueryGetsReply ==
    (ui.pc = "wait") ~> (ui.pc = "idle")

\* C8: when the writer thread exits because the producer is closed, every buffer
\* for which PtyHandle::write returned Ok has been written to the PTY master.
C8_DrainsBeforeEof ==
    (writer.pc = "exited" /\ writer.exit = "closed") => master = WrittenOk

C12_WriterExitsAfterDrop ==
    (~pty.input_tx) ~> (writer.pc = "exited")

\* the handle was dropped while the writer thread was in its idle check with
\* nothing written in this round, and the thread exited on the closed queue
C12_Witness ==
    /\ ~pty.input_tx
    /\ writer.pc = "exited" /\ writer.exit = "closed"
    /\ Len(master) >= 1

\* C13: a write of non-empty data that begins after the writer thread exited on
\* a write error does not return Ok, and its push_blocking returns at its first
\* check of the closed consumer.
C13_WriteAfterErrorFails ==
    (pty.after_error /\ pty.data.len > 0) =>
        /\ pty.result # "ok"
        /\ pty.pc = "recheck" => write_q.consumer_closed

\* such a write has returned its error
C13_Witness ==
    /\ pty.after_error /\ pty.data.len > 0
    /\ pty.pc = "idle" /\ pty.result = "err"

\* C14: a step of render_frame that clears a set dirty flag belongs to a frame
\* that extracted the pane's grid and latched it with set_pane_content.
C14_ClearAfterLatchedExtract ==
    [][(dirty /\ ~dirty') => (ui.frame.stage = "store" /\ ui.frame.extracted)]_vars

\* C16: after any sequence of split (with fresh pane ids) and remove, layout()
\* returns the id of each leaf exactly once and no other id, every rect has
\* width > 0 and height > 0, and the rects tile the unit square: they lie
\* inside it, no two overlap, and their areas add up to the whole square.
C16_LayoutTiles ==
    LET l == layout(tree)
        Overlap(a, b) ==
            /\ a.x < b.x + b.width /\ b.x < a.x + a.width
            /\ a.y < b.y + b.height /\ b.y < a.y + a.height
        \* the part of the unit square, in cells of one unit, that rect r covers
        Cells(r) == (r.x .. r.x + r.width - 1) \X (r.y .. r.y + r.height - 1)
    IN
    /\ [i \in 1 .. Len(l) |-> l[i][1]] = pane_ids(tree)
    /\ \A i, j \in 1 .. Len(l) : i # j => l[i][1] # l[j][1]
    /\ \A i \in 1 .. Len(l) :
         /\ l[i][2].width > 0 /\ l[i][2].height > 0
         /\ l[i][2].x >= 0 /\ l[i][2].x + l[i][2].width <= One
         /\ l[i][2].y >= 0 /\ l[i][2].y + l[i][2].height <= One
    /\ \A i, j \in 1 .. Len(l) : i # j => ~Overlap(l[i][2], l[j][2])
    /\ UNION {Cells(l[i][2]) : i \in 1 .. Len(l)} = (0 .. One - 1) \X (0 .. One - 1)

\* C17: remove(pane) on a tree whose root is the single leaf Leaf(pane) returns
\* false and leaves the tree unchanged, and a tree always has at least one leaf.
C17_RootLeafStays ==
    /\ Len(pane_ids(tree)) >= 1
    /\ (last_op.kind = "remove" /\ last_op.before.root = Leaf(last_op.pane)) =>
           (~last_op.result /\ tree = last_op.before)

C17_Witness ==
    /\ last_op.kind = "remove" /\ last_op.before.root = Leaf(last_op.pane)
    /\ app.next_pane_id > 2

\* C18: remove(pane) on a tree with at least two leaves that contains pane
\* returns true; the parent Split of Leaf(pane) and the leaf are gone, the
\* sibling subtree stands where the parent stood, every other node keeps its
\* place, direction and ratio, and the leaf sequence is the previous one
\* without pane. remove of a pane that is not in the tree (or is the root leaf)
\* returns false and leaves the tree unchanged.
C18_RemovePromotesSibling ==
    last_op.kind = "remove" =>
        LET before == last_op.before
            pane == last_op.pane
            ids == pane_ids(before)
            old == Labels(before.root, <<>>)
            Under(r, pre) == Len(r) >= Len(pre) /\ SubSeq(r, 1, Len(pre)) = pre
        IN IF (\E i \in 1 .. Len(ids) : ids[i] = pane) /\ Len(ids) >= 2
           THEN \E e \in old :
                  /\ e[2] = Leaf(pane)
                  /\ LET p == e[1]
                         q == SubSeq(p, 1, Len(p) - 1)
                         sib == q \o <<3 - p[Len(p)]>>
                     IN /\ last_op.result
                        /\ pane_ids(tree) = SelectSeq(ids, LAMBDA i : i # pane)
                        /\ Labels(tree.root, <<>>) =
                             {x \in old : ~Under(x[1], q)} \cup
                             {<<q \o SubSeq(x[1], Len(sib) + 1, Len(x[1])), x[2]>> :
                                 x \in {y \in old : Under(y[1], sib)}}
           ELSE ~last_op.result /\ tree = before

\* a pane was removed whose sibling is a Split, below the root
C18_Witness ==
    /\ last_op.kind = "remove" /\ last_op.result
    /\ \E e \in Labels(last_op.before.root, <<>>) :
         /\ e[2] = Leaf(last_op.pane) /\ Len(e[1]) >= 2
         /\ \E x \in Labels(last_op.before.root, <<>>) :
              /\ x[1] = SubSeq(e[1], 1, Len(e[1]) - 1) \o <<3 - e[1][Len(e[1])]>>
              /\ ~x[2].leaf

\* C19: split(target, axis, new_pane) puts Split{axis, 0.5, Leaf(target),
\* Leaf(new_pane)} where Leaf(target) stood (pane ids are unique, so that leaf is
\* the first in pre-order) and changes no other node, so new_pane follows
\* target immediately in the leaf sequence; when target is not in the tree, the
\* tree is unchanged.
C19_SplitReplacesLeaf ==
    last_op.kind = "split" =>
        LET before == last_op.before
            ids == pane_ids(before)
            old == Labels(before.root, <<>>)
        IN IF \E i \in 1 .. Len(ids) : ids[i] = last_op.pane
           THEN \E e \in old :
                  /\ e[2] = Leaf(last_op.pane)
                  /\ Labels(tree.root, <<>>) =
                       (old \ {e}) \cup
                       {<<e[1], [leaf |-> FALSE, direction |-> last_op.direction,
                                 ratio |-> Ratio(5)]>>,
                        <<e[1] \o <<1>>, Leaf(last_op.pane)>>,
                        <<e[1] \o <<2>>, Leaf(last_op.new_pane)>>}
                  /\ \E k \in 1 .. Len(ids) :
                       /\ ids[k] = last_op.pane
                       /\ pane_ids(tree) = SubSeq(ids, 1, k) \o <<last_op.new_pane>>
                                              \o SubSeq(ids, k + 1, Len(ids))
           ELSE tree = before

\* a leaf below the root was split
C19_Witness ==
    /\ last_op.kind = "split" /\ ~last_op.before.root.leaf
    /\ \E i \in 1 .. Len(pane_ids(last_op.before)) :
         pane_ids(last_op.before)[i] = last_op.pane
    /\ Len(pane_ids(tree)) = Len(pane_ids(last_op.before)) + 1

\* C20: every Split ratio is a number within [0.1, 0.9] after any sequence of
\* split, remove and adjust_ratio; adjust_ratio(pane, delta) changes only the
\* ratio of the Split that has Leaf(pane) as a direct child, to
\* clamp(ratio + delta, 0.1, 0.9), and changes nothing when pane is not in the
\* tree or is the root leaf.
C20_RatioClamped ==
    /\ \A e \in Labels(tree.root, <<>>) :
         ~e[2].leaf =>
            /\ ~e[2].ratio.nan
            /\ e[2].ratio.tenths >= 1 /\ e[2].ratio.tenths <= 9
    /\ last_op.kind = "adjust_ratio" =>
         LET old == Labels(last_op.before.root, <<>>)
             delta == last_op.delta
             Clamped(r) ==
                 IF r.nan \/ delta.nan THEN NaN
                 ELSE IF r.tenths + delta.tenths < 1 THEN Ratio(1)
                 ELSE IF r.tenths + delta.tenths > 9 THEN Ratio(9)
                 ELSE Ratio(r.tenths + delta.tenths)
         IN IF \E e \in old : e[2] = Leaf(last_op.pane) /\ e[1] # <<>>
            THEN \E e, x \in old :
                   /\ e[2] = Leaf(last_op.pane)
                   /\ x[1] = SubSeq(e[1], 1, Len(e[1]) - 1)
                   /\ Labels(tree.root, <<>>) =
                        (old \ {x}) \cup
                        {<<x[1], [x[2] EXCEPT !.ratio = Clamped(x[2].ratio)]>>}
            ELSE tree = last_op.before

\* C15: after handle_dead_panes has run for the panes whose PTY has exited, the
\* application has quit exactly when no pane state is left; when it has not
\* quit, no workspace's split tree contains any of those panes, none of them
\* has a pane state, and every workspace left has at least one live pane.
C15_DeadPanesGone ==
    last_op.kind = "handle_dead_panes" =>
        LET Leaves(ws) == {pane_ids(ws.split_tree)[k] :
                              k \in 1 .. Len(pane_ids(ws.split_tree))}
            live == app.pane_states \ app.exited
        IN /\ app.quit <=> (app.pane_states = {})
           /\ ~app.quit =>
                /\ \A i \in 1 .. Len(app.workspaces) :
                     /\ Leaves(app.workspaces[i]) \cap last_op.dead = {}
                     /\ Leaves(app.workspaces[i]) \cap live # {}
                /\ app.pane_states \cap last_op.dead = {}

\* two panes died at once, a workspace was closed for it, and the application
\* goes on
C15_Witness ==
    /\ last_op.kind = "handle_dead_panes" /\ ~app.quit
    /\ Cardinality(last_op.dead) >= 2
    /\ Len(app.workspaces) < last_op.ws_count

\* C21: for a pane in the tree, next_pane and prev_pane return the leaf after
\* and the leaf before it in the leaf sequence, the first leaf following the
\* last and the last preceding the first, so each undoes the other; for a pane
\* that is not in the tree both return None.
C21_NextPrevInverse ==
    LET ids == pane_ids(tree)
        n == Len(ids)
    IN /\ \A i \in 1 .. n :
            /\ next_pane(tree, ids[i]) = Some(IF i < n THEN ids[i + 1] ELSE ids[1])
            /\ prev_pane(tree, ids[i]) = Some(IF i > 1 THEN ids[i - 1] ELSE ids[n])
            /\ prev_pane(tree, next_pane(tree, ids[i]).id) = Some(ids[i])
            /\ next_pane(tree, prev_pane(tree, ids[i]).id) = Some(ids[i])
       /\ \A p \in PaneIds :
            (\A i \in 1 .. n : ids[i] # p) =>
               (next_pane(tree, p) = None /\ prev_pane(tree, p) = None)

\* a tree of three leaves or more, after a remove, with a pane id that is gone
C21_Witness ==
    /\ Len(pane_ids(tree)) >= 3
    /\ last_op.kind = "remove" /\ last_op.result
    /\ next_pane(tree, last_op.pane) = None
    /\ next_pane(tree, pane_ids(tree)[Len(pane_ids(tree))]) = Some(pane_ids(tree)[1])

\* C22: after any sequence of add_workspace, close_workspace and
\* select_workspace calls the manager holds at least one workspace and
\* active_index is an index into the list; close_workspace on the only
\* workspace or of an unknown id, and select_workspace with an index out of
\* range, change nothing.
C22_ActiveIndexValid ==
    /\ Len(app.workspaces) >= 1
    /\ app.active_index >= 0 /\ app.active_index < Len(app.workspaces)
    /\ last_op.kind = "close_workspace" =>
         LET before == last_op.before.workspaces IN
         (Len(before) = 1 \/ \A i \in 1 .. Len(before) : before[i].id # last_op.id)
            => app = last_op.before
    /\ last_op.kind = "select_workspace" =>
         IF last_op.idx >= Len(last_op.before.workspaces)
         THEN app = last_op.before
         ELSE app.active_index = last_op.idx

\* the last workspace of three was active and was closed
C22_Witness ==
    /\ last_op.kind = "close_workspace"
    /\ Len(last_op.before.workspaces) = 3 /\ last_op.before.active_index = 2
    /\ last_op.before.workspaces[3].id = last_op.id
    /\ Len(app.workspaces) = 2

\* C23: the pane ids and workspace ids a manager hands out grow strictly: no
\* call lowers next_pane_id or next_workspace_id, every pane id and workspace
\* id that appears with a call lies at or above the counter before the call and
\* below the counter after it, and no pane id is a leaf of two workspaces (or
\* twice of one).
C23_IdsFresh ==
    LET Panes(m) == UNION {{pane_ids(m.workspaces[i].split_tree)[k] :
                              k \in 1 .. Len(pane_ids(m.workspaces[i].split_tree))} :
                           i \in 1 .. Len(m.workspaces)}
        Ids(m) == {m.workspaces[i].id : i \in 1 .. Len(m.workspaces)}
        LeafCount(m, p) ==
            Cardinality({<<i, k>> \in (1 .. Len(m.workspaces)) \X (1 .. MaxPanes + 1) :
                            /\ k <= Len(pane_ids(m.workspaces[i].split_tree))
                            /\ pane_ids(m.workspaces[i].split_tree)[k] = p})
    IN /\ \A p \in Panes(app) : p < app.next_pane_id /\ LeafCount(app, p) = 1
       /\ \A w \in Ids(app) : w < app.next_workspace_id
       /\ Cardinality(Ids(app)) = Len(app.workspaces)
       /\ last_op.kind \in {"add_workspace", "close_workspace", "select_workspace",
                             "next_pane_id"} =>
            LET b == last_op.before IN
            /\ app.next_pane_id >= b.next_pane_id
            /\ app.next_workspace_id >= b.next_workspace_id
            /\ \A p \in Panes(app) \ Panes(b) : p >= b.next_pane_id
            /\ \A w \in Ids(app) \ Ids(b) : w >= b.next_workspace_id
            /\ last_op.kind = "add_workspace" =>
                 /\ Panes(app) \ Panes(b) = {b.next_pane_id}
                 /\ Ids(app) \ Ids(b) = {b.next_workspace_id}
            /\ last_op.kind = "next_pane_id" => Panes(app) \ Panes(b) = {b.next_pane_id}

\* a workspace is added after the first workspace and pane 0 are gone and a
\* split has taken a pane id
C23_Witness ==
    /\ last_op.kind = "add_workspace"
    /\ \A i \in 1 .. Len(app.workspaces) : app.workspaces[i].id # 0
    /\ \E i \in 1 .. Len(last_op.before.workspaces) :
         ~last_op.before.workspaces[i].split_tree.root.leaf

\* C24: in every workspace active_pane is a leaf of the workspace's split tree
\* after any sequence of completed user operations (split, focus next and
\* previous, click focus, workspace add and close, dead-pane reaping).
C24_ActivePaneIsLeaf ==
    \A i \in 1 .. Len(app.workspaces) :
        node_contains(app.workspaces[i].split_tree.root, app.workspaces[i].active_pane)

\* C24 as it holds: the same while the application has not quit (when
\* handle_dead_panes finds every pane dead it quits and leaves the focus of the
\* workspaces alone); set_active_pane with an id that is not in the tree leaves
\* the workspace unchanged.
C24_ActivePaneIsLeafUntilQuit ==
    /\ ~app.quit => C24_ActivePaneIsLeaf
    /\ \A i \in 1 .. Len(app.workspaces), id \in PaneIds :
         ~node_contains(app.workspaces[i].split_tree.root, id) =>
            set_active_pane(app.workspaces[i], id) = app.workspaces[i]

\* the focused pane of a workspace died together with another pane, the
\* workspace is still there and the application goes on
C24_Witness ==
    /\ last_op.kind = "handle_dead_panes" /\ ~app.quit
    /\ Len(app.workspaces) = last_op.ws_count
    /\ Cardinality(last_op.dead) >= 2
    /\ \E i \in 1 .. last_op.ws_count : last_op.active[i] \in last_op.dead

\* every row whose LineBuffer has the bg_hash it had before the last call has
\* the multiset of content background spans it had before the call
C25_SameHashSameSpansBody ==
        LET RowSpans(spans, row) == SelectSeq(spans, LAMBDA span : span.row = row)
            Bag(q) == [x \in {q[k] : k \in 1 .. Len(q)} |->
                          Cardinality({k \in 1 .. Len(q) : q[k] = x})]
        IN \A k \in 1 .. Len(pb.lines) :
              (k <= Len(last_op.before.lines)
                  /\ pb.lines[k].bg_hash = last_op.before.lines[k].bg_hash) =>
                 Bag(RowSpans(pb.content_bg_spans, k - 1))
                    = Bag(RowSpans(last_op.before.content_bg_spans, k - 1))

C26_SameSelectionNoRebuild ==
    (last_op.kind = "set_pane_content" /\ last_op.second
        /\ last_op.selection = last_op.prev_selection
        /\ last_op.selection_bg = last_op.prev_selection_bg) =>
       /\ ~last_op.sel_rebuilt
       /\ pb.selection_bg_spans = last_op.before.selection_bg_spans

\* a second call with the same selection over a grid of another shape, for
\* which a rebuild would have given other spans
C26_Witness ==
    /\ last_op.kind = "set_pane_content" /\ last_op.second
    /\ last_op.selection.some
    /\ last_op.selection = last_op.prev_selection
    /\ last_op.selection_bg = last_op.prev_selection_bg
    /\ pb.selection_bg_spans # <<>>
    /\ pb.selection_bg_spans
          # rebuild_selection_bg_spans(last_op.grid, last_op.selection, last_op.selection_bg)

\* C27: every index 0..255 resolves as documented: 0..15 to the theme's
\* palette entry, 16..231 to the 6x6x6 cube whose axis value is 0 for level 0
\* and 55 + 40 * level otherwise, 232..255 to the gray 8 + 10 * (idx - 232),
\* and no intermediate result overflows 8 bits.
C27_IndexedColours ==
    last_op.kind = "alacritty_color_to_rgb" =>
        LET idx == last_op.idx
            Axis(level) == IF level = 0 THEN 0 ELSE 55 + 40 * level
            Gray == 8 + 10 * (idx - 232)
        IN /\ ~last_op.color.overflow
           /\ idx < 16 => last_op.color.rgb = last_op.theme.ansi[idx]
           /\ (16 <= idx /\ idx < 232) =>
                 last_op.color.rgb = <<Axis(((idx - 16) \div 36) % 6),
                                       Axis(((idx - 16) \div 6) % 6),
                                       Axis((idx - 16) % 6)>>
           /\ 232 <= idx => last_op.color.rgb = <<Gray, Gray, Gray>>
           /\ \A k \in 1 .. 3 : last_op.color.rgb[k] \in 0 .. 255

\* the brightest cube entry, whose axes reach 255, has been resolved
C27_Witness ==
    /\ last_op.kind = "alacritty_color_to_rgb"
    /\ last_op.idx = 231
    /\ last_op.color.rgb = <<255, 255, 255>>

\* C28: no PTY output is left unrendered: whenever the reader is idle (blocked
\* in read), the input queue is empty and the parser is idle (it found both
\* queues empty and did no work in its round), the pane's dirty flag is true or
\* the pane's render cache equals the emulator's viewport grid.
C28_NoOutputLeftUnrendered ==
    (/\ reader.pc = "read"
     /\ Items(input_q) = <<>>
     /\ parser.pc = "check" /\ ~parser.did_work) =>
        dirty \/ render_grid = extract_grid_full_from_term(term)

\* C29: a delta extract is full, and its reply rewrites every row, whenever the
\* cache the caller supplied has a row count different from the emulator's row
\* count or holds a row whose length differs from the emulator's column count.
C29_CallerShapeForcesFull ==
    (/\ reply.kind = "delta"
     /\ shape_changed([cols |-> reply.size[1], rows |-> reply.size[2]], render_grid)) =>
        /\ reply.delta.full
        /\ {reply.rows[k][1] : k \in 1 .. Len(reply.rows)} = 0 .. reply.size[2] - 1

\* C30: a delta extract with full = false rewrites only the rows listed in
\* dirty_rows and leaves every other cached row unchanged; a delta extract with
\* full = true leaves the cache with exactly the emulator's row count, every row
\* holding exactly the current column count of cells, and dirty_rows equal to
\* all row indices. Checked for the parser thread's cache at the step that
\* handles the extract and for the caller's cache at the step that takes the reply.
C30_DeltaRewrites ==
    [][LET Kept(d, old, new) ==
               /\ Len(new) = Len(old)
               /\ \A i \in 1 .. Len(old) :
                     (\A k \in 1 .. Len(d.dirty_rows) : d.dirty_rows[k] # i - 1) =>
                        new[i] = old[i]
           Whole(d, cols, rows, new) ==
               /\ Len(new) = rows
               /\ \A i \in 1 .. Len(new) : Len(new[i].cells) = cols
               /\ d.dirty_rows = UpTo(rows)
       IN /\ (parser.pc = "control" /\ parser'.pc = "cursor") =>
               LET d == parser'.delta.delta IN
               IF d.full THEN Whole(d, term.cols, term.rows, render_cache')
               ELSE Kept(d, render_cache, render_cache')
          /\ (ui.pc = "wait" /\ reply.kind = "delta" /\ ui'.pc = "idle") =>
               IF reply.delta.full
               THEN Whole(reply.delta, reply.size[1], reply.size[2], render_grid')
               ELSE Kept(reply.delta, render_grid, render_grid')
      ]_vars

\* a delta extract that was not full rewrote one row of a two-row cache and
\* kept the other, and the caller has taken its reply
C30_Witness ==
    /\ ui.pc = "idle" /\ ui.last.kind = "delta"
    /\ ~ui.last.delta.full
    /\ Len(ui.last.delta.dirty_rows) = 1
    /\ Len(render_grid) = 2
    /\ render_grid[2] # render_grid[1]

\* C31: after every delta extract call of an owner that passes the same cache
\* to every delta extract, the caller's cache is identical to the parser
\* thread's render cache: same row count and the same cells in every row.
C31_CallerCacheMirrors ==
    (ui.pc = "idle" /\ ui.last.kind = "delta") => render_grid = render_cache

\* a delta extract that was not full has returned into a cache that holds
\* printed output
C31_Witness ==
    /\ ui.pc = "idle" /\ ui.last.kind = "delta"
    /\ ~ui.last.delta.full
    /\ \E i \in 1 .. Len(render_grid) : \E j \in 1 .. Len(render_grid[i].cells) :
          render_grid[i].cells[j].c # " "

\* C32: in every reachable state of a channel, head - tail (modulo the counter
\* width) lies between 0 and the capacity, which is the requested capacity
\* rounded up to a power of two and at least 1; the producer never writes a slot
\* that holds an unconsumed item and the consumer never reads a slot that was
\* not published.
C32_HeadTailWithinCapacity ==
    LET used == wrapping_sub(ch.head, ch.tail)
        \* the slots of the items in [tail, head)
        Unconsumed == {SlotOf(ch, wrapping_add(ch.tail, k)) : k \in 0 .. used - 1}
    IN /\ used \in 0 .. ch.capacity
       /\ ch.capacity >= 1 /\ ch.capacity >= RingDepth
       /\ \E k \in 0 .. RingDepth : ch.capacity = Pow2(k) /\ (k > 0 => Pow2(k - 1) < RingDepth)
       /\ prod.pc = "write" =>
             /\ prod.head = ch.head
             /\ SlotOf(ch, prod.head) \notin Unconsumed
       /\ cons.pc = "read" =>
             /\ cons.tail = ch.tail
             /\ used >= 1
             /\ Len(accepted) > Len(popped)
             /\ ch.buf[SlotOf(ch, cons.tail)] = accepted[Len(popped) + 1]

\* the ring is full, the head counter has wrapped past zero and the tail counter
\* has not, and the consumer is about to read the oldest slot
C32_Witness ==
    /\ wrapping_sub(ch.head, ch.tail) = ch.capacity
    /\ ch.head < ch.tail
    /\ cons.pc = "read"

\* C33: when the channel's shared buffer is dropped, every item that was pushed
\* and not popped is dropped exactly once and no other slot is touched, also
\* when the head counter has wrapped past zero while the tail counter has not.
C33_DropsPendingOnce ==
    last_op.kind = "drop_inner" =>
        /\ last_op.dropped = SubSeq(accepted, Len(popped) + 1, Len(accepted))
        /\ \A j, k \in 1 .. Len(last_op.slots) : last_op.slots[j] = last_op.slots[k] => j = k

\* C34: try_push never blocks: each of its steps can be taken whatever the
\* consumer does, and leads on towards its return. When the consumer half was
\* dropped before the call, or the queue holds capacity items when the call
\* tests for room, it returns Err carrying the same value and leaves head, tail
\* and the stored items unchanged; otherwise it appends the value and returns Ok.
C34_TryPushContract ==
    /\ []((~prod.blocking /\ prod.pc \in {"closed", "tail", "write", "store"}) =>
            ENABLED (ProducerLoadClosed \/ ProducerLoadTail \/ ProducerWriteSlot
                        \/ ProducerStoreHead))
    /\ [][(~prod.blocking /\ prod' # prod) =>
            LET ReturnsErr == /\ prod'.pc = "idle" /\ prod'.value = prod.value
                              /\ ch' = ch /\ accepted' = accepted
            IN /\ prod.pc = "closed" =>
                    IF ch.consumer_closed THEN ReturnsErr
                    ELSE prod'.pc = "tail" /\ ch' = ch
               /\ prod.pc = "tail" =>
                    IF wrapping_sub(ch.head, ch.tail) >= ch.capacity THEN ReturnsErr
                    ELSE prod'.pc = "write" /\ ch' = ch
               /\ prod.pc = "write" => prod'.pc = "store" /\ Items(ch') = Items(ch)
               /\ prod.pc = "store" =>
                    /\ prod'.pc = "idle"
                    /\ accepted' = Append(accepted, prod.value)
                    /\ Items(ch') = Append(Items(ch), prod.value)
                    /\ ch'.tail = ch.tail
                    /\ ch'.head = wrapping_add(ch.head, 1)
          ]_vars

\* a try_push has returned Err from a full ring whose consumer is alive
C34_Witness ==
    /\ prod.pc = "idle" /\ ~prod.blocking /\ prod.value >= 1
    /\ wrapping_sub(ch.head, ch.tail) = ch.capacity
    /\ ~ch.consumer_closed
    /\ \A k \in 1 .. Len(accepted) : accepted[k] # prod.value

\* C35: push_blocking returns Err(value) only when the consumer half is closed,
\* and a value handed back in Err was not enqueued; it returns Ok, with the
\* value appended, once the queue has room; when it is scheduled fairly and the
\* consumer goes on to pop an item or is dropped, it eventually returns.
C35_PushBlockingReturns ==
    /\ []((pty.pc = "idle" /\ pty.result = "err") =>
            /\ write_q.consumer_closed
            /\ \A k \in 1 .. Len(Items(write_q)) : Items(write_q)[k] # pty.data
            /\ \A k \in 1 .. Len(write_ok) : write_ok[k] # pty.data
            /\ \A k \in 1 .. Len(master) : master[k].id # pty.data.id)
    /\ [][(pty.pc = "recheck" /\ pty' # pty /\ ~write_q.consumer_closed) =>
            /\ wrapping_sub(write_q.head, write_q.tail) < write_q.capacity
            /\ pty'.pc = "idle" /\ pty'.result = "ok"
            /\ Items(write_q') = Append(Items(write_q), pty.data)]_vars
    /\ (pty.pc = "recheck") ~> (pty.pc = "idle")

\* a push_blocking that found the queue full and waited has returned Err after
\* the writer thread dropped the consumer
C35_Witness ==
    /\ pty.pc = "idle" /\ pty.result = "err" /\ pty.waited
    /\ write_q.consumer_closed

\* C36: reaping dead panes keeps the same workspace (by id) active when the
\* active workspace still has a live pane before the call
C36_ReapKeepsActiveWorkspace ==
    [][(/\ last_op'.kind = "handle_dead_panes"
        /\ last_op.kind # "handle_dead_panes"
        /\ \E k \in 1 .. Len(pane_ids(app.workspaces[app.active_index + 1].split_tree)) :
             LET pid == pane_ids(app.workspaces[app.active_index + 1].split_tree)[k]
             IN pid \in app.pane_states \ app.exited)
       => app'.workspaces[app'.active_index + 1].id
            = app.workspaces[app.active_index + 1].id]_vars

\* C37: close_workspace(id) with an id other than the active workspace's id
\* leaves the same workspace (by id) active, wherever the closed workspace
\* stood in the list
C37_CloseOtherKeepsActive ==
    (/\ last_op.kind = "close_workspace"
     /\ last_op.id # last_op.before.workspaces[last_op.before.active_index + 1].id)
    => app.workspaces[app.active_index + 1].id
         = last_op.before.workspaces[last_op.before.active_index + 1].id

\* C38: after every set_pane_content call whose dirty_rows lists every row
\* that changed since the previous call, the content background spans are,
\* as a multiset, the spans of a full rebuild over the grid and default
\* background of that call, on the incremental and on the full-rebuild path
C38_ContentSpansAreFullRebuild ==
    last_op.kind = "set_pane_content" =>
       LET full == rebuild_content_bg_spans(last_op.grid, last_op.default_bg)
           Count(s, x) == Cardinality({k \in 1 .. Len(s) : s[k] = x})
       IN /\ Len(pb.content_bg_spans) = Len(full)
          /\ \A k \in 1 .. Len(full) :
                Count(pb.content_bg_spans, full[k]) = Count(full, full[k])

\* an incremental call has kept the spans of one row and rewritten another
C38_Witness ==
    /\ last_op.kind = "set_pane_content"
    /\ last_op.second
    /\ Len(last_op.grid) = 2
    /\ Len(last_op.before.lines) = 2
    /\ last_op.prev_default_bg = last_op.default_bg
    /\ last_op.before.content_bg_spans # pb.content_bg_spans
    /\ \E a, b \in 1 .. Len(pb.content_bg_spans) :
          /\ pb.content_bg_spans[a].row # pb.content_bg_spans[b].row
          /\ \E k \in 1 .. Len(last_op.before.content_bg_spans) :
                last_op.before.content_bg_spans[k] = pb.content_bg_spans[a]
    /\ pb.content_bg_spans # rebuild_content_bg_spans(last_op.grid, last_op.default_bg)

\* C39: after every set_pane_content call each selection span lies inside
\* the grid of that call: its row is below the row count and col + width is
\* at most that row's cell count, also after a resize with the same selection
C39_SelectionSpansInsideGrid ==
    last_op.kind = "set_pane_content" =>
       \A k \in 1 .. Len(pb.selection_bg_spans) :
          LET span == pb.selection_bg_spans[k]
          IN /\ span.row < Len(last_op.grid)
             /\ span.col + span.width <= Len(last_op.grid[span.row + 1].cells)

\* C9: after a resize that changed the size, the next delta extract is full,
\* lists every row of the new grid, and leaves the caller's cache with the new
\* row count and every row with the new column count.
C9_ResizeForcesFull ==
    /\ (reply.kind = "delta" /\ reply.resized) =>
         /\ reply.delta.full
         /\ reply.delta.dirty_rows = UpTo(reply.size[2])
    /\ (ui.last.kind = "delta" /\ ui.last.resized) =>
         /\ Len(render_grid) = ui.last.size[2]
         /\ \A i \in 1 .. Len(render_grid) : Len(render_grid[i].cells) = ui.last.size[1]

\* the reply to a delta extract after a resize that changed the row count, for a
\* caller whose cache an earlier extract filled with the old shape
C9_Witness ==
    /\ reply.kind = "delta" /\ reply.resized
    /\ render_grid # <<>>
    /\ Len(render_grid) # reply.size[2]

\* C10: a delta extract that follows a full extract with no modification of
\* the emulator in between returns full = false and no dirty rows.
C10_FullThenDeltaEmpty ==
    (reply.kind = "delta" /\ reply.after_full) => EmptyDelta(reply)
====
